---- MODULE Spec2Model ----
(***************************************************************************)
(* Route assembly and train kinematics of BuildMyTransit                   *)
(* (hooks/useTrainSimulation.ts: WaySection, Infra, TrainRoute, Train,     *)
(* TrainManager).                                                          *)
(*                                                                         *)
(* Number representation.  The program computes with IEEE doubles; the     *)
(* model uses exact integers in fixed units:                               *)
(*   time          1 unit = 1 s                                            *)
(*   acceleration  1 unit = 0.5 m/s^2                                      *)
(*   velocity      1 unit = 0.5 m/s                                        *)
(*   distance      1 unit = 0.5 m   (the program's km value * 2000)        *)
(* With these units v += a*dt and d += v*dt/1000 (km) are exact integer    *)
(* operations.  Geography is one-dimensional: a node's coordinate is an    *)
(* integer position on a line and turf.length of a polyline is the sum of  *)
(* the absolute differences of consecutive coordinates.                    *)
(***************************************************************************)
EXTENDS Integers, Sequences, FiniteSets, TLC

VARIABLES
    service,      \* the service definition handed to TrainRoute.fromService
    routeBuilt,   \* whether fromService has been called on it
    route,        \* the TrainRoute it returned (ok = FALSE: it threw)
    trains,       \* TrainManager.trains, a Map in insertion order
    nextTrainId,  \* TrainManager.nextTrainId
    ticks,        \* number of updateTrains calls so far
    lastDt,       \* adjustedDeltaTime of the latest updateTrains call
    gapUsed,      \* distanceToTrainAhead each moving train used in that call
    routes,       \* the TrainRoutes the simulator holds, one per service
    lastRemoved,  \* ids in trainsToRemove at the end of that call
    ways,         \* InfraSchema.ways, the ways of the network
    returned,     \* how the latest addTrain call ended
    sectionArgs,  \* the arguments of a new WaySection(infra, ...)
    newSection,   \* what that constructor produced, once it has run
    dwelledAt,    \* per train id, the stops the train has entered dwelling at
    designerWaySections,  \* RouteDesigner's waySections: the route being designed
    selectedWayIds        \* RouteDesigner's selectedWayIds: the ways clicked on the map

vars == <<service, routeBuilt, route, trains, nextTrainId, ticks, lastDt, gapUsed, routes,
          lastRemoved, ways, returned, sectionArgs, newSection, dwelledAt,
          designerWaySections, selectedWayIds>>

(***************************************************************************)
(* Bounds of the model.                                                    *)
(***************************************************************************)
MaxRouteWays == 3
MaxTrainId == 2
MaxTicks == 5
MaxDwellTicks == 7

(***************************************************************************)
(* Generic helpers.                                                        *)
(***************************************************************************)
NoNode == "none"
NoCoord == -1

Abs(x) == IF x < 0 THEN -x ELSE x
Min2(a, b) == IF a <= b THEN a ELSE b
Max2(a, b) == IF a >= b THEN a ELSE b
SetMin(S) == CHOOSE x \in S : \A y \in S : x <= y
Range(s) == {s[i] : i \in 1..Len(s)}

RECURSIVE SumSeq(_)
SumSeq(s) == IF Len(s) = 0 THEN 0 ELSE s[1] + SumSeq(Tail(s))

\* Array.prototype.indexOf, 1-based; 0 stands for JavaScript's -1.
IndexOf(s, x) ==
    IF \E i \in 1..Len(s) : s[i] = x
    THEN CHOOSE i \in 1..Len(s) : s[i] = x /\ \A j \in 1..(i - 1) : s[j] # x
    ELSE 0

\* All sequences over S of length at most n.
SeqsUpTo(S, n) == UNION {[1..k -> S] : k \in 0..n}

(***************************************************************************)
(* The network (InfraSchema).  Ways "A".."T" exist, way "Z" does not.      *)
(* Every way has at least two nodes and every node of a way has            *)
(* coordinates, as the script that writes infra.json ensures; "L" is a     *)
(* closed way (first node = last node) and "D" joins two nodes that have   *)
(* the same coordinates.  N12 is a node id without coordinates, which only *)
(* a service's stop list can name.  The variable ways holds the ways of    *)
(* the network in use: all of InfraWays, or none; the route designer is    *)
(* also run on WaysWithReturnTrack, which has one way more.                *)
(***************************************************************************)
WayIds == {"A", "B", "C", "D", "E", "F", "T", "L"}
MissingWayId == "Z"

InfraWays ==
    [w \in WayIds |->
        CASE w = "A" -> [nodes |-> <<"N1", "N2", "N3">>, bidi |-> FALSE]
          [] w = "B" -> [nodes |-> <<"N3", "N4", "N5">>, bidi |-> TRUE]
          [] w = "C" -> [nodes |-> <<"N7", "N8">>, bidi |-> FALSE]
          [] w = "D" -> [nodes |-> <<"N3", "N13">>, bidi |-> FALSE]
          [] w = "E" -> [nodes |-> <<"N6", "N5">>, bidi |-> FALSE]
          [] w = "F" -> [nodes |-> <<"N3", "N9">>, bidi |-> TRUE]
          [] w = "T" -> [nodes |-> <<"N2", "N10">>, bidi |-> FALSE]
          [] w = "L" -> [nodes |-> <<"N5", "N11", "N5">>, bidi |-> FALSE]]

NodeIds == {"N1", "N2", "N3", "N4", "N5", "N6", "N7", "N8", "N9", "N10",
            "N11", "N12", "N13"}

\* A network without ways.
NoWays == [w \in {} |-> [nodes |-> <<>>, bidi |-> FALSE]]

InfraNodeCoords ==
    [n \in NodeIds |->
        CASE n = "N1" -> 0
          [] n = "N2" -> 200
          [] n = "N3" -> 400
          [] n = "N4" -> 600
          [] n = "N5" -> 800
          [] n = "N6" -> 1000
          [] n = "N7" -> 5000
          [] n = "N8" -> 8000
          [] n = "N9" -> 300
          [] n = "N10" -> 250
          [] n = "N11" -> 900
          [] n = "N12" -> NoCoord
          [] n = "N13" -> 400]

\* Infra.getWay: the way record, or undefined (HasWay false).
HasWay(wayId) == wayId \in DOMAIN ways
GetWay(wayId) == ways[wayId]

\* Infra.getNodeCoords: the coordinate, or undefined (NoCoord).
GetNodeCoords(nodeId) ==
    IF nodeId \in NodeIds THEN InfraNodeCoords[nodeId] ELSE NoCoord

\* turf.length(turf.lineString(points)).
LineLength(points) ==
    SumSeq([i \in 1..(Len(points) - 1) |-> Abs(points[i + 1] - points[i])])

\* Infra.getWayDistance.
GetWayDistance(wayId) ==
    IF ~HasWay(wayId) \/ Len(GetWay(wayId).nodes) < 2 THEN 0
    ELSE LET all == [i \in 1..Len(GetWay(wayId).nodes) |->
                        GetNodeCoords(GetWay(wayId).nodes[i])]
             coordinates == SelectSeq(all, LAMBDA c : c # NoCoord)
         IN  IF Len(coordinates) < 2 THEN 0 ELSE LineLength(coordinates)

\* findCommonElement: the first item of a that b includes, or null (NoNode).
FindCommonElement(a, b) ==
    IF \E i \in 1..Len(a) : a[i] \in Range(b)
    THEN a[CHOOSE i \in 1..Len(a) :
                a[i] \in Range(b) /\ \A j \in 1..(i - 1) : a[j] \notin Range(b)]
    ELSE NoNode

(***************************************************************************)
(* WaySection.                                                             *)
(***************************************************************************)
FailedSection(wayId) ==
    [ok |-> FALSE, wayId |-> wayId, startNodeId |-> NoNode,
     endNodeId |-> NoNode, nodeIds |-> <<>>, points |-> <<>>, warned |-> FALSE]

\* A node list that always follows the way's own order, from the smaller
\* index to the larger.
SectionNodeIdsInWayOrder(nodes, startIndex, endIndex) ==
    SubSeq(nodes, Min2(startIndex, endIndex), Max2(startIndex, endIndex))

\* The section's node list, from the two indices into way.nodes.
SectionNodeIds(nodes, startIndex, endIndex) ==
    IF startIndex < endIndex
    THEN SubSeq(nodes, startIndex, endIndex)
    ELSE [k \in 1..(startIndex - endIndex + 1) |-> nodes[startIndex - k + 1]]

\* A constructor that falls back to the way's first and last node when a
\* requested node is not in the way.
WaySectionDefaultEndpoints(wayId, startNodeIdArg, endNodeIdArg) ==
    IF ~HasWay(wayId) THEN FailedSection(wayId)
    ELSE
      LET way == GetWay(wayId)
          startNodeId == IF startNodeIdArg \in Range(way.nodes) THEN startNodeIdArg
                         ELSE way.nodes[1]
          endNodeId == IF endNodeIdArg \in Range(way.nodes) THEN endNodeIdArg
                       ELSE way.nodes[Len(way.nodes)]
          nodeIds == SectionNodeIds(way.nodes, IndexOf(way.nodes, startNodeId),
                                    IndexOf(way.nodes, endNodeId))
      IN  [ok |-> TRUE, wayId |-> wayId,
           startNodeId |-> startNodeId, endNodeId |-> endNodeId,
           nodeIds |-> nodeIds,
           points |-> [i \in 1..Len(nodeIds) |-> GetNodeCoords(nodeIds[i])],
           warned |-> FALSE]

\* new WaySection(infra, wayId, startNodeId, endNodeId); NoNode stands for an
\* omitted endpoint.  ok = FALSE stands for a thrown Error.
WaySection(wayId, startNodeIdArg, endNodeIdArg) ==
    IF ~HasWay(wayId) THEN FailedSection(wayId)
    ELSE
      LET way == GetWay(wayId)
          startNodeId == IF startNodeIdArg = NoNode THEN way.nodes[1]
                         ELSE startNodeIdArg
          endNodeId == IF endNodeIdArg = NoNode THEN way.nodes[Len(way.nodes)]
                       ELSE endNodeIdArg
          startIndex == IndexOf(way.nodes, startNodeId)
          endIndex == IndexOf(way.nodes, endNodeId)
      IN  IF startIndex = 0 \/ endIndex = 0 THEN FailedSection(wayId)
          ELSE
            LET nodeIds == SectionNodeIds(way.nodes, startIndex, endIndex)
                points == [i \in 1..Len(nodeIds) |-> GetNodeCoords(nodeIds[i])]
            IN  IF \E i \in 1..Len(points) : points[i] = NoCoord
                THEN FailedSection(wayId)
                ELSE [ok |-> TRUE, wayId |-> wayId,
                      startNodeId |-> startNodeId, endNodeId |-> endNodeId,
                      nodeIds |-> nodeIds, points |-> points,
                      warned |-> (startIndex > endIndex /\ ~way.bidi)]

\* WaySection.getDistance.
GetDistance(section) ==
    IF Len(section.points) < 2 THEN 0 ELSE LineLength(section.points)

(***************************************************************************)
(* TrainRoute.                                                             *)
(***************************************************************************)
PlatformOffset == 150    \* 0.075 km
StopTolerance == 10      \* 0.005 km

\* cachedStopPositions = null.
NullStops == [cached |-> FALSE, stops |-> <<>>]

FailedRoute ==
    [ok |-> FALSE, waySections |-> <<>>, stopNodeIds |-> <<>>,
     totalDistance |-> 0, sectionDistances |-> <<>>,
     cachedStopPositions |-> NullStops]

\* The loop without "startEnds[i + 1][0] = commonNodeId".
RECURSIVE ConnectEarlierEndOnly(_, _, _)
ConnectEarlierEndOnly(startEnds, nodes, i) ==
    IF i > Len(startEnds) - 1 THEN startEnds
    ELSE LET commonNodeId == FindCommonElement(nodes[i], nodes[i + 1])
         IN  ConnectEarlierEndOnly(
                 IF commonNodeId # NoNode
                 THEN [startEnds EXCEPT ![i][2] = commonNodeId]
                 ELSE startEnds,
                 nodes, i + 1)

\* The loop of fromService over consecutive pairs, from pair i on: a common
\* node becomes the end of the earlier pair and the start of the later one.
RECURSIVE ConnectStartEnds(_, _, _)
ConnectStartEnds(startEnds, nodes, i) ==
    IF i > Len(startEnds) - 1 THEN startEnds
    ELSE LET commonNodeId == FindCommonElement(nodes[i], nodes[i + 1])
         IN  ConnectStartEnds(
                 IF commonNodeId # NoNode
                 THEN [startEnds EXCEPT ![i][2] = commonNodeId,
                                        ![i + 1][1] = commonNodeId]
                 ELSE startEnds,
                 nodes, i + 1)

\* The two substitutions after the loop, for a first or last pair whose start
\* and end are the same node.
FixDegenerateEnds(startEnds, nodes) ==
    LET n == Len(startEnds)
        first == IF startEnds[1][1] = startEnds[1][2]
                 THEN [startEnds EXCEPT ![1][1] = nodes[1][Len(nodes[1])]]
                 ELSE startEnds
    IN  IF first[n][1] = first[n][2]
        THEN [first EXCEPT ![n][2] = nodes[n][1]]
        ELSE first

\* The start/end pairs fromService computes for two or more way ids.
StartEndsOf(nodes) ==
    FixDegenerateEnds(
        ConnectStartEnds(
            [i \in 1..Len(nodes) |-> <<nodes[i][1], nodes[i][Len(nodes[i])]>>],
            nodes, 1),
        nodes)

\* The way sections fromService builds; <<>> with ok = FALSE when it throws.
ServiceSections(route_way_ids) ==
    IF Len(route_way_ids) <= 1
    THEN [i \in 1..Len(route_way_ids) |->
             WaySection(route_way_ids[i], NoNode, NoNode)]
    ELSE LET present == SelectSeq(route_way_ids, HasWay)
             nodes == [i \in 1..Len(present) |-> GetWay(present[i]).nodes]
         IN  IF Len(nodes) = 0 THEN <<FailedSection(route_way_ids[1])>>
             ELSE LET startEnds == StartEndsOf(nodes)
                  IN  [index \in 1..Len(startEnds) |->
                          WaySection(route_way_ids[index],
                                     startEnds[index][1], startEnds[index][2])]

\* TrainRoute.buildRoute: the cumulative distance at the start of each section
\* (the Map is keyed by the section object, here by its index) and the total.
RECURSIVE BuildRouteFrom(_, _, _, _)
BuildRouteFrom(waySections, i, cumulativeDistance, sectionDistances) ==
    IF i > Len(waySections)
    THEN [sectionDistances |-> sectionDistances,
          totalDistance |-> cumulativeDistance]
    ELSE BuildRouteFrom(waySections, i + 1,
                        cumulativeDistance + GetDistance(waySections[i]),
                        Append(sectionDistances, cumulativeDistance))

\* buildRoute with the distances keyed by way id instead of by section: a
\* later section of the same way overwrites the entry of an earlier one.
BuildRouteKeyedByWayId(waySections) ==
    LET built == BuildRouteFrom(waySections, 1, 0, <<>>)
        lastOfWay(i) ==
            CHOOSE j \in i..Len(waySections) :
                /\ waySections[j].wayId = waySections[i].wayId
                /\ \A k \in (j + 1)..Len(waySections) :
                       waySections[k].wayId # waySections[i].wayId
    IN  [sectionDistances |->
             [i \in 1..Len(waySections) |-> built.sectionDistances[lastOfWay(i)]],
         totalDistance |-> built.totalDistance]

BuildRoute(waySections) == BuildRouteFrom(waySections, 1, 0, <<>>)

\* TrainRoute.fromService.
FromService(svc) ==
    LET sections == ServiceSections(svc.route_way_ids)
    IN  IF \E i \in 1..Len(sections) : ~sections[i].ok THEN FailedRoute
        ELSE LET built == BuildRoute(sections)
             IN  [ok |-> TRUE, waySections |-> sections,
                  stopNodeIds |-> svc.stop_node_ids,
                  totalDistance |-> built.totalDistance,
                  sectionDistances |-> built.sectionDistances,
                  cachedStopPositions |-> NullStops]

\* TrainRoute.getRouteLine: the coordinates of the merged polyline; <<>>
\* stands for null.
RECURSIVE RouteCoordinatesFrom(_, _, _)
RouteCoordinatesFrom(waySections, i, routeCoordinates) ==
    IF i > Len(waySections) THEN routeCoordinates
    ELSE LET coordinates == waySections[i].points
         IN  RouteCoordinatesFrom(waySections, i + 1,
                 IF Len(coordinates) < 2 THEN routeCoordinates
                 ELSE IF Len(routeCoordinates) = 0 THEN coordinates
                 ELSE IF routeCoordinates[Len(routeCoordinates)] # coordinates[1]
                      THEN routeCoordinates \o coordinates
                      ELSE routeCoordinates \o Tail(coordinates))

GetRouteLine(r) ==
    LET routeCoordinates == RouteCoordinatesFrom(r.waySections, 1, <<>>)
    IN  IF Len(routeCoordinates) < 2 THEN <<>> ELSE routeCoordinates

\* turf.nearestPointOnLine(line, p).properties.location: the distance along
\* the line of the point of the line closest to p; of several equally close
\* points the first along the line.
ClosestOnSegment(a, b, p) == Max2(Min2(a, b), Min2(p, Max2(a, b)))

RECURSIVE NearestFrom(_, _, _, _, _, _)
NearestFrom(line, p, i, travelled, bestDist, bestLocation) ==
    IF i > Len(line) - 1 THEN bestLocation
    ELSE LET c == ClosestOnSegment(line[i], line[i + 1], p)
             d == Abs(p - c)
             better == bestDist < 0 \/ d < bestDist
         IN  NearestFrom(line, p, i + 1,
                         travelled + Abs(line[i + 1] - line[i]),
                         IF better THEN d ELSE bestDist,
                         IF better THEN travelled + Abs(c - line[i])
                         ELSE bestLocation)

NearestPointLocation(line, p) == NearestFrom(line, p, 1, 0, -1, 0)

\* Array.prototype.sort by routePosition (stable).
RECURSIVE InsertStop(_, _)
InsertStop(sorted, stop) ==
    IF Len(sorted) = 0 THEN <<stop>>
    ELSE IF sorted[Len(sorted)].routePosition <= stop.routePosition
         THEN Append(sorted, stop)
         ELSE Append(InsertStop(SubSeq(sorted, 1, Len(sorted) - 1), stop),
                     sorted[Len(sorted)])

RECURSIVE SortStops(_)
SortStops(stops) ==
    IF Len(stops) = 0 THEN <<>>
    ELSE InsertStop(SortStops(SubSeq(stops, 1, Len(stops) - 1)),
                    stops[Len(stops)])

\* cacheStopPositions without the final sort: the stops in declared order.
ComputeStopPositionsUnsorted(r) ==
    LET routeLine == GetRouteLine(r)
        withCoords == SelectSeq(r.stopNodeIds,
                                LAMBDA n : GetNodeCoords(n) # NoCoord)
    IN  IF Len(r.stopNodeIds) = 0 \/ routeLine = <<>> THEN <<>>
        ELSE [k \in 1..Len(withCoords) |->
                 [nodeId |-> withCoords[k],
                  routePosition |->
                      Max2(0, NearestPointLocation(routeLine,
                                  GetNodeCoords(withCoords[k]))
                              - PlatformOffset)]]

\* TrainRoute.cacheStopPositions: the list it stores in cachedStopPositions.
ComputeStopPositions(r) ==
    LET routeLine == GetRouteLine(r)
        withCoords == SelectSeq(r.stopNodeIds,
                                LAMBDA n : GetNodeCoords(n) # NoCoord)
    IN  IF Len(r.stopNodeIds) = 0 \/ routeLine = <<>> THEN <<>>
        ELSE SortStops(
                 [k \in 1..Len(withCoords) |->
                     [nodeId |-> withCoords[k],
                      routePosition |->
                          Max2(0, NearestPointLocation(routeLine,
                                      GetNodeCoords(withCoords[k]))
                                  - PlatformOffset)]])

\* TrainRoute.cacheStopPositions: the route with the cache filled.
CacheStopPositions(r) ==
    [r EXCEPT !.cachedStopPositions =
                  [cached |-> TRUE, stops |-> ComputeStopPositions(r)]]

\* TrainRoute.getCachedStopPositions: the cached list, computed first when
\* the cache is null.
GetCachedStopPositions(r) ==
    IF r.cachedStopPositions.cached THEN r.cachedStopPositions.stops
    ELSE ComputeStopPositions(r)

\* Index of the first section of the route with this way id; 0 for -1.
FindSectionIndex(r, wayId) ==
    IndexOf([i \in 1..Len(r.waySections) |-> r.waySections[i].wayId], wayId)

\* TrainRoute.getRoutePosition.
GetRoutePosition(r, wayId, distanceAlongWay) ==
    IF FindSectionIndex(r, wayId) = 0 THEN 0
    ELSE r.sectionDistances[FindSectionIndex(r, wayId)] + distanceAlongWay

\* getNextStopAhead without the test on lastStopId.
GetNextStopAheadAny(r, currentRoutePosition, lastStopId) ==
    LET stops == GetCachedStopPositions(r)
        ahead(k) == stops[k].routePosition > currentRoutePosition
    IN  IF \E k \in 1..Len(stops) : ahead(k)
        THEN CHOOSE k \in 1..Len(stops) :
                 ahead(k) /\ \A j \in 1..(k - 1) : ~ahead(j)
        ELSE 0

\* TrainRoute.getNextStopAhead: index into the cached stops of the first stop
\* that is not lastStopId and lies beyond currentRoutePosition; 0 for null.
GetNextStopAhead(r, currentRoutePosition, lastStopId) ==
    LET stops == GetCachedStopPositions(r)
        ahead(k) == ~(lastStopId # NoNode /\ stops[k].nodeId = lastStopId)
                    /\ stops[k].routePosition > currentRoutePosition
    IN  IF \E k \in 1..Len(stops) : ahead(k)
        THEN CHOOSE k \in 1..Len(stops) :
                 ahead(k) /\ \A j \in 1..(k - 1) : ~ahead(j)
        ELSE 0

(***************************************************************************)
(* Train.                                                                  *)
(***************************************************************************)
BaseAcceleration == 2         \* 1 m/s^2
BaseDeceleration == 4         \* 2 m/s^2
EmergencyDeceleration == 10   \* 5 m/s^2
AccelerationStep == 1         \* the 0.5 m/s^2 of "this.acceleration + 0.5"
\* velocity >= 60 / 2.23694 m/s (53.64 velocity units) holds of an integer
\* number of units exactly when it is at least 54.
MaxSpeed == 54
\* Number.MAX_SAFE_INTEGER: the "no train / no stop ahead" distance, larger
\* than every distance of the model.
MAX_SAFE_INTEGER == 100000000

\* The services the simulator offers trains for, and their routes
\* (useTrainSimulation: services.map(fromService)).
SimServices ==
    << [stop_node_ids |-> <<"N2", "N4">>, route_way_ids |-> <<"A", "B">>],
       [stop_node_ids |-> <<>>, route_way_ids |-> <<"C">>],
       [stop_node_ids |-> <<"N10">>, route_way_ids |-> <<"A", "T">>],
       [stop_node_ids |-> <<>>, route_way_ids |-> <<"A", "D">>] >>

\* Each route is held with its stop cache filled: the first update of a train
\* on it fills the cache (getNextStopAhead -> getCachedStopPositions) and
\* nothing invalidates it during the simulation.
SimRoutes ==
    [i \in 1..Len(SimServices) |->
        CacheStopPositions(FromService(SimServices[i]))]

DwellTimes == {3}
DeltaTimes == {1, 2}
SimulationRates == {1, 5}

RouteOf(train) == routes[train.route]
SectionOf(train) == RouteOf(train).waySections[train.sec]
WayIdOf(train) == SectionOf(train).wayId

\* new Train(id, infra, route, dwellTime), then the two assignments of
\* TrainManager.addTrain.
NewTrain(id, routeIndex, dwellTime) ==
    [id |-> id, route |-> routeIndex, sec |-> 1, distanceAlongKm |-> 0,
     velocity |-> 0, acceleration |-> BaseAcceleration,
     routePosition |->
         GetRoutePosition(routes[routeIndex],
                          routes[routeIndex].waySections[1].wayId, 0),
     isAtStop |-> FALSE, stopDwellTime |-> dwellTime,
     remainingDwellTime |-> 0, lastStopNodeId |-> NoNode]

\* Train.getDistanceToTrainAhead, the loop from section i on.
RECURSIVE DistanceToTrainAheadFrom(_, _, _, _, _)
DistanceToTrainAheadFrom(self, otherTrains, currentWayIndex, i, cumulativeDistance) ==
    LET r == RouteOf(self) IN
    IF i > Len(r.waySections) THEN MAX_SAFE_INTEGER
    ELSE
      LET waySection == r.waySections[i]
          wayId == waySection.wayId
          segmentLength == GetDistance(waySection)
          skip == ~HasWay(wayId) \/ Len(GetWay(wayId).nodes) < 2
                  \/ segmentLength = 0
          trainsOnSegment ==
              {k \in 1..Len(otherTrains) :
                  otherTrains[k].id # self.id /\ WayIdOf(otherTrains[k]) = wayId}
          distances ==
              IF i = currentWayIndex
              THEN {cumulativeDistance
                      + (otherTrains[k].distanceAlongKm - self.distanceAlongKm) :
                    k \in {j \in trainsOnSegment :
                             otherTrains[j].distanceAlongKm > self.distanceAlongKm}}
              ELSE {cumulativeDistance + otherTrains[k].distanceAlongKm :
                    k \in trainsOnSegment}
      IN  IF skip
          THEN DistanceToTrainAheadFrom(self, otherTrains, currentWayIndex,
                                        i + 1, cumulativeDistance)
          ELSE IF distances # {} THEN SetMin(distances)
          ELSE DistanceToTrainAheadFrom(self, otherTrains, currentWayIndex, i + 1,
                   IF i = currentWayIndex
                   THEN cumulativeDistance
                          + Max2(0, segmentLength - self.distanceAlongKm)
                   ELSE cumulativeDistance + segmentLength)

\* Train.getDistanceToTrainAhead.
GetDistanceToTrainAhead(self, otherTrains) ==
    LET currentWayIndex == FindSectionIndex(RouteOf(self), WayIdOf(self))
    IN  IF currentWayIndex = 0 THEN MAX_SAFE_INTEGER
        ELSE DistanceToTrainAheadFrom(self, otherTrains, currentWayIndex,
                                      currentWayIndex, 0)

\* Train.getDistanceToNextStop.
GetDistanceToNextStop(self) ==
    LET k == GetNextStopAhead(RouteOf(self), self.routePosition,
                              self.lastStopNodeId)
        stops == GetCachedStopPositions(RouteOf(self))
    IN  IF k = 0 THEN [distance |-> MAX_SAFE_INTEGER, stopNodeId |-> NoNode]
        ELSE [distance |-> stops[k].routePosition - self.routePosition,
              stopNodeId |-> stops[k].nodeId]

\* The stop-approach candidate without the clamp to emergencyDeceleration.
StopApproachUnclamped(velocity, acceleration, distanceToNextStop) ==
    IF velocity * velocity < 2 * BaseDeceleration * distanceToNextStop
    THEN Min2(BaseAcceleration, acceleration + AccelerationStep)
    ELSE -((velocity * velocity) \div (2 * distanceToNextStop))

\* The stop-approach candidate of calculateAcceleration (option 5), for a stop
\* at distance s > 0 and velocity v > 0.  a = -v^2/(2s) is, in model units,
\* -v^2/(2s) acceleration units; a value between the two thresholds is rounded
\* toward zero to a whole unit.
StopApproachAcceleration(velocity, acceleration, distanceToNextStop) ==
    IF velocity * velocity < 2 * BaseDeceleration * distanceToNextStop
    THEN Min2(BaseAcceleration, acceleration + AccelerationStep)
    ELSE IF velocity * velocity >= 2 * EmergencyDeceleration * distanceToNextStop
    THEN -EmergencyDeceleration
    ELSE -((velocity * velocity) \div (2 * distanceToNextStop))

\* The candidates without option 2 (zero at or above the maximum speed).
AccelerationOptionsNoSpeedCap(velocity, acceleration, distanceToTrainAhead, distanceToNextStop) ==
    {BaseAcceleration}
    \cup (IF 2 * BaseDeceleration * distanceToTrainAhead <= velocity * velocity
          THEN {-BaseDeceleration} ELSE {})
    \cup (IF 2 * EmergencyDeceleration * distanceToTrainAhead
               <= velocity * velocity
          THEN {-EmergencyDeceleration} ELSE {})
    \cup (IF distanceToNextStop < MAX_SAFE_INTEGER /\ velocity > 0
          THEN {StopApproachAcceleration(velocity, acceleration,
                                         distanceToNextStop)}
          ELSE {})

\* The candidates without the emergency deceleration for a train ahead.
AccelerationOptionsNoEmergency(velocity, acceleration, distanceToTrainAhead, distanceToNextStop) ==
    {BaseAcceleration}
    \cup (IF velocity >= MaxSpeed THEN {0} ELSE {})
    \cup (IF 2 * BaseDeceleration * distanceToTrainAhead <= velocity * velocity
          THEN {-BaseDeceleration} ELSE {})
    \cup (IF distanceToNextStop < MAX_SAFE_INTEGER /\ velocity > 0
          THEN {StopApproachAcceleration(velocity, acceleration,
                                         distanceToNextStop)}
          ELSE {})

\* The candidates of calculateAcceleration.
AccelerationOptions(velocity, acceleration, distanceToTrainAhead, distanceToNextStop) ==
    {BaseAcceleration}
    \cup (IF velocity >= MaxSpeed THEN {0} ELSE {})
    \cup (IF 2 * BaseDeceleration * distanceToTrainAhead <= velocity * velocity
          THEN {-BaseDeceleration} ELSE {})
    \cup (IF 2 * EmergencyDeceleration * distanceToTrainAhead
               <= velocity * velocity
          THEN {-EmergencyDeceleration} ELSE {})
    \cup (IF distanceToNextStop < MAX_SAFE_INTEGER /\ velocity > 0
          THEN {StopApproachAcceleration(velocity, acceleration,
                                         distanceToNextStop)}
          ELSE {})

\* Train.calculateAcceleration: the new this.acceleration.
CalculateAcceleration(velocity, acceleration, distanceToTrainAhead, distanceToNextStop) ==
    SetMin(AccelerationOptions(velocity, acceleration, distanceToTrainAhead,
                               distanceToNextStop))

\* Train.hasReachedEnd.
HasReachedEnd(self) ==
    IF ~HasWay(WayIdOf(self)) \/ Len(GetWay(WayIdOf(self)).nodes) < 2 THEN TRUE
    ELSE IF GetWayDistance(WayIdOf(self)) = 0 THEN TRUE
    ELSE self.distanceAlongKm >= GetWayDistance(WayIdOf(self))

\* Train.update while the train is still dwelling.
IsDwelling(self) == self.isAtStop /\ self.remainingDwellTime > 0

\* Train.update, leaving the stop once the dwell time is over.
Departed(self) ==
    [self EXCEPT !.isAtStop = FALSE,
                 !.remainingDwellTime = IF self.isAtStop THEN 0 ELSE @]

\* A movement that lets the velocity go below 0.
MovedUnclamped(departed, deltaTime, acceleration) ==
    LET velocity == departed.velocity + acceleration * deltaTime
    IN  [departed EXCEPT !.acceleration = acceleration,
                         !.velocity = velocity,
                         !.distanceAlongKm = @ + velocity * deltaTime,
                         !.routePosition = @ + velocity * deltaTime]

\* Train.update, the new velocity and the movement along the way.
Moved(departed, deltaTime, acceleration) ==
    LET velocity == Max2(departed.velocity + acceleration * deltaTime, 0)
    IN  [departed EXCEPT !.acceleration = acceleration,
                         !.velocity = velocity,
                         !.distanceAlongKm = @ + velocity * deltaTime,
                         !.routePosition = @ + velocity * deltaTime]

\* An arrival test without the tolerance: only a gap of zero counts.
StoppedAtZeroGap(moved, nextStop) ==
    IF nextStop.distance <= 0
    THEN [moved EXCEPT !.isAtStop = TRUE,
                       !.lastStopNodeId = nextStop.stopNodeId,
                       !.remainingDwellTime = moved.stopDwellTime]
    ELSE moved

\* Train.update, the arrival at a stop: decided from the distance to the stop
\* measured before the movement.
Stopped(moved, nextStop) ==
    IF nextStop.distance <= StopTolerance
    THEN [moved EXCEPT !.isAtStop = TRUE,
                       !.lastStopNodeId = nextStop.stopNodeId,
                       !.remainingDwellTime = moved.stopDwellTime]
    ELSE moved

\* Train.updateCoordinates: with two or more points of length 0 the segment
\* index is NaN, coordinates[NaN] is undefined and turf.point(undefined)
\* throws.
UpdateCoordinatesThrows(self) ==
    Len(SectionOf(self).points) >= 2 /\ GetDistance(SectionOf(self)) = 0

\* Train.update, what it returns for the train it leaves behind, or that it
\* threw in updateCoordinates.
UpdateResult(stopped, distanceToTrainAhead) ==
    [train |-> stopped, reachedEnd |-> HasReachedEnd(stopped),
     distanceToTrainAhead |-> distanceToTrainAhead,
     threw |-> UpdateCoordinatesThrows(stopped)]

\* Train.update of a train that is not dwelling.
UpdateMoving(departed, deltaTime, distanceToTrainAhead, nextStop) ==
    UpdateResult(
        Stopped(Moved(departed, deltaTime,
                      CalculateAcceleration(departed.velocity,
                          departed.acceleration, distanceToTrainAhead,
                          nextStop.distance)),
                nextStop),
        distanceToTrainAhead)

\* An update that never leaves a stop once the train is at it.
UpdateNeverDeparting(self, deltaTime, otherTrains) ==
    IF self.isAtStop
    THEN [train |-> self, reachedEnd |-> FALSE, distanceToTrainAhead |-> -1,
          threw |-> FALSE]
    ELSE UpdateMoving(Departed(self), deltaTime,
                      GetDistanceToTrainAhead(Departed(self), otherTrains),
                      GetDistanceToNextStop(Departed(self)))

\* Train.update: the train after the call, what it returned, and the
\* distanceToTrainAhead it computed (-1 when it returned early, dwelling).
Update(self, deltaTime, otherTrains) ==
    IF IsDwelling(self)
    THEN [train |-> [self EXCEPT !.remainingDwellTime = @ - deltaTime],
          reachedEnd |-> FALSE, distanceToTrainAhead |-> -1, threw |-> FALSE]
    ELSE UpdateMoving(Departed(self), deltaTime,
                      GetDistanceToTrainAhead(Departed(self), otherTrains),
                      GetDistanceToNextStop(Departed(self)))

\* moveToNextWay that never finds a next section.
MoveToNextWayNever(self) == [moved |-> FALSE, train |-> self]

\* A moveToNextWay that leaves routePosition as the movement left it.
MoveToNextWayKeepingPosition(self) ==
    LET r == RouteOf(self)
        currentWayIndex == FindSectionIndex(r, WayIdOf(self))
        nextWayIndex == currentWayIndex + 1
    IN  IF currentWayIndex = 0 \/ nextWayIndex > Len(r.waySections)
        THEN [moved |-> FALSE, train |-> self]
        ELSE LET nextWayId == r.waySections[nextWayIndex].wayId
             IN  IF ~HasWay(nextWayId) \/ Len(GetWay(nextWayId).nodes) < 2
                 THEN [moved |-> FALSE, train |-> self]
                 ELSE [moved |-> TRUE,
                       train |-> [self EXCEPT !.sec = nextWayIndex,
                                              !.distanceAlongKm = 0]]

\* Train.moveToNextWay: whether it moved, and the train afterwards.
MoveToNextWay(self) ==
    LET r == RouteOf(self)
        currentWayIndex == FindSectionIndex(r, WayIdOf(self))
        nextWayIndex == currentWayIndex + 1
    IN  IF currentWayIndex = 0 \/ nextWayIndex > Len(r.waySections)
        THEN [moved |-> FALSE, train |-> self]
        ELSE LET nextWayId == r.waySections[nextWayIndex].wayId
             IN  IF ~HasWay(nextWayId) \/ Len(GetWay(nextWayId).nodes) < 2
                 THEN [moved |-> FALSE, train |-> self]
                 ELSE [moved |-> TRUE,
                       train |-> [self EXCEPT
                           !.sec = nextWayIndex,
                           !.distanceAlongKm = 0,
                           !.routePosition = GetRoutePosition(r, nextWayId, 0)]]

(***************************************************************************)
(* TrainManager.                                                           *)
(***************************************************************************)
\* The array "allTrains" an update is handed.  Array.from(this.trains.values())
\* copies the references, not the Train objects, so what an update reads
\* through it is each train's state at that moment of the call.
AllTrains(atCallStart, current) == current

\* The forEach callback once train.update has returned: moveToNextWay when
\* the train reached the end of its section, and removal when that fails.
AfterUpdate(updated) ==
    IF ~updated.threw /\ updated.reachedEnd
    THEN [next |-> MoveToNextWay(updated.train),
          distanceToTrainAhead |-> updated.distanceToTrainAhead,
          threw |-> FALSE]
    ELSE [next |-> [moved |-> TRUE, train |-> updated.train],
          distanceToTrainAhead |-> updated.distanceToTrainAhead,
          threw |-> updated.threw]

\* TrainManager.updateTrains, the forEach from the k-th visited train on.
\* order lists the positions of the Map in the order they are visited.
RECURSIVE UpdateTrainsFrom(_, _, _, _, _, _, _)
\* The rest of the forEach after the callback for the k-th visited train.  An
\* error thrown by train.update leaves updateTrains at once: the trains not
\* yet visited are not updated and nothing is deleted.
UpdateTrainsAfter(atCallStart, current, order, k, adjustedDeltaTime, trainsToRemove, gaps, visited) ==
    IF visited.threw
    THEN [trains |-> [current EXCEPT ![order[k]] = visited.next.train],
          trainsToRemove |-> {},
          gaps |-> [gaps EXCEPT ![order[k]] = visited.distanceToTrainAhead],
          threw |-> TRUE]
    ELSE UpdateTrainsFrom(atCallStart,
                          [current EXCEPT ![order[k]] = visited.next.train],
                          order, k + 1, adjustedDeltaTime,
                          IF visited.next.moved THEN trainsToRemove
                          ELSE trainsToRemove \cup {order[k]},
                          [gaps EXCEPT ![order[k]] = visited.distanceToTrainAhead])

UpdateTrainsFrom(atCallStart, current, order, k, adjustedDeltaTime, trainsToRemove, gaps) ==
    IF k > Len(order)
    THEN [trains |-> current, trainsToRemove |-> trainsToRemove, gaps |-> gaps,
          threw |-> FALSE]
    ELSE UpdateTrainsAfter(atCallStart, current, order, k, adjustedDeltaTime,
             trainsToRemove, gaps,
             AfterUpdate(Update(current[order[k]], adjustedDeltaTime,
                                AllTrains(atCallStart, current))))

\* The trains left after deleting the positions in trainsToRemove.
RECURSIVE DeleteTrains(_, _, _)
DeleteTrains(fleet, trainsToRemove, i) ==
    IF i > Len(fleet) THEN <<>>
    ELSE (IF i \in trainsToRemove THEN <<>> ELSE <<fleet[i]>>)
         \o DeleteTrains(fleet, trainsToRemove, i + 1)

\* TrainManager.updateTrains, the deletion of the trains to remove.
FleetAfter(done) ==
    [trains |-> DeleteTrains(done.trains, done.trainsToRemove, 1),
     gaps |-> done.gaps,
     removed |-> {done.trains[i].id : i \in done.trainsToRemove}]

\* TrainManager.updateTrains visiting the trains in the given order.
UpdateTrainsInOrder(fleet, order, adjustedDeltaTime) ==
    FleetAfter(UpdateTrainsFrom(fleet, fleet, order, 1, adjustedDeltaTime, {},
                                [i \in 1..Len(fleet) |-> -1]))

\* Map.prototype.forEach visits the entries in insertion order.
InsertionOrder(fleet) == [i \in 1..Len(fleet) |-> i]

(***************************************************************************)
(* Simulation: the operations of TrainManager.                             *)
(***************************************************************************)
\* What an addTrain call can end with.
NothingReturned == [kind |-> "none", id |-> 0]
ReturnedNull == [kind |-> "null", id |-> 0]
Thrown == [kind |-> "throw", id |-> 0]
ReturnedId(id) == [kind |-> "id", id |-> id]

NoService == [stop_node_ids |-> <<>>, route_way_ids |-> <<>>]

\* No WaySection is being constructed on its own.
NoSectionArgs == [wayId |-> MissingWayId, startNodeId |-> NoNode, endNodeId |-> NoNode]

\* No train has entered dwelling anywhere.
NeverDwelled == [k \in 1..MaxTrainId |-> {}]

\* The stops each train of the fleet has entered dwelling at, after an
\* updateTrains call that left the fleet fleetAfter: a train that was not
\* dwelling, was updated, and is at a stop afterwards has entered dwelling at
\* its lastStopNodeId (lines 559-563).
DwelledAtAfter(fleetAfter, gaps) ==
    [k \in 1..MaxTrainId |->
        IF \E j \in 1..Len(fleetAfter) : fleetAfter[j].id = k
        THEN dwelledAt[k] \cup
             {fleetAfter[j].lastStopNodeId :
                 j \in {n \in 1..Len(fleetAfter) :
                          /\ fleetAfter[n].id = k
                          /\ fleetAfter[n].isAtStop
                          /\ \E i \in 1..Len(trains) :
                                 /\ trains[i].id = k
                                 /\ ~IsDwelling(trains[i])
                                 /\ gaps[i] # -1}}
        ELSE {}]

Init ==
    /\ ways = InfraWays
    /\ service = NoService
    /\ routeBuilt = FALSE
    /\ route = FailedRoute
    /\ trains = <<>>
    /\ nextTrainId = 1
    /\ ticks = 0
    /\ lastDt = 0
    /\ gapUsed = <<>>
    /\ routes = <<>>
    /\ lastRemoved = {}
    /\ returned = NothingReturned
    /\ sectionArgs = NoSectionArgs
    /\ newSection = <<>>
    /\ dwelledAt = NeverDwelled
    /\ designerWaySections = <<>>
    /\ selectedWayIds = {}

\* useTrainSimulation: services = serviceData.services.map(fromService), once
\* the network is there.
LoadServices ==
    /\ routes = <<>>
    /\ routes' = SimRoutes
    /\ UNCHANGED <<ways, service, routeBuilt, route, trains, nextTrainId, ticks,
                   lastDt, gapUsed, lastRemoved, returned, sectionArgs, newSection, dwelledAt,
                   designerWaySections, selectedWayIds>>

\* new Train(...) throws: route.waySections[0] is undefined for a route
\* without sections, and the constructor's updateCoordinates throws on a
\* first section of two or more points and length 0.
NewTrainThrows(routeIndex) ==
    \/ Len(routes[routeIndex].waySections) = 0
    \/ /\ Len(routes[routeIndex].waySections[1].points) >= 2
       /\ GetDistance(routes[routeIndex].waySections[1]) = 0

\* TrainManager.addTrain(route, dwellTime); randomWayId is the way
\* Math.random picks.
AddTrain(routeIndex, dwellTime) ==
    /\ nextTrainId <= MaxTrainId
    /\ IF DOMAIN ways = {}
       THEN /\ returned' = ReturnedNull
            /\ UNCHANGED <<trains, nextTrainId>>
       ELSE \E randomWayId \in DOMAIN ways :
              IF Len(GetWay(randomWayId).nodes) < 2
              THEN /\ returned' = ReturnedNull
                   /\ UNCHANGED <<trains, nextTrainId>>
              ELSE IF NewTrainThrows(routeIndex)
              THEN /\ nextTrainId' = nextTrainId + 1
                   /\ returned' = Thrown
                   /\ UNCHANGED trains
              ELSE /\ trains' = Append(trains, NewTrain(nextTrainId, routeIndex,
                                                       dwellTime))
                   /\ nextTrainId' = nextTrainId + 1
                   /\ returned' = ReturnedId(nextTrainId)
    /\ UNCHANGED <<ways, routes, service, routeBuilt, route, ticks, lastDt, gapUsed,
                   lastRemoved, sectionArgs, newSection, dwelledAt,
                   designerWaySections, selectedWayIds>>

\* TrainManager.updateTrains(deltaTime, simulationRate), for at most maxTicks
\* calls.
UpdateTrainsWithin(maxTicks, deltaTime, simulationRate) ==
    /\ ticks < maxTicks
    /\ LET adjustedDeltaTime == deltaTime * simulationRate
           done == UpdateTrainsInOrder(trains, InsertionOrder(trains),
                                       adjustedDeltaTime)
       IN  /\ trains' = done.trains
           /\ gapUsed' = done.gaps
           /\ lastRemoved' = done.removed
           /\ lastDt' = adjustedDeltaTime
           /\ dwelledAt' = DwelledAtAfter(done.trains, done.gaps)
    /\ ticks' = ticks + 1
    /\ UNCHANGED <<ways, routes, service, routeBuilt, route, nextTrainId, returned,
                   sectionArgs, newSection,
                   designerWaySections, selectedWayIds>>

UpdateTrains(deltaTime, simulationRate) ==
    UpdateTrainsWithin(MaxTicks, deltaTime, simulationRate)

\* TrainManager.removeTrain(trainId).
RemoveTrain(trainId) ==
    /\ \E i \in 1..Len(trains) : trains[i].id = trainId
    /\ trains' = SelectSeq(trains, LAMBDA t : t.id # trainId)
    /\ dwelledAt' = [dwelledAt EXCEPT ![trainId] = {}]
    /\ UNCHANGED <<ways, routes, service, routeBuilt, route, nextTrainId, ticks, lastDt,
                   gapUsed, lastRemoved, returned, sectionArgs, newSection,
                   designerWaySections, selectedWayIds>>

\* A clearAllTrains that also starts the ids again at 1.
ClearAllTrainsResettingIds ==
    /\ trains # <<>>
    /\ trains' = <<>>
    /\ dwelledAt' = NeverDwelled
    /\ nextTrainId' = 1
    /\ UNCHANGED <<ways, routes, service, routeBuilt, route, ticks, lastDt,
                   gapUsed, lastRemoved, returned, sectionArgs, newSection,
                   designerWaySections, selectedWayIds>>

\* TrainManager.clearAllTrains().
ClearAllTrains ==
    /\ trains # <<>>
    /\ trains' = <<>>
    /\ dwelledAt' = NeverDwelled
    /\ UNCHANGED <<ways, routes, service, routeBuilt, route, nextTrainId, ticks, lastDt,
                   gapUsed, lastRemoved, returned, sectionArgs, newSection,
                   designerWaySections, selectedWayIds>>

Next ==
    \/ LoadServices
    \/ \E routeIndex \in 1..Len(routes), dwellTime \in DwellTimes :
           AddTrain(routeIndex, dwellTime)
    \/ \E deltaTime \in DeltaTimes, simulationRate \in SimulationRates :
           UpdateTrains(deltaTime, simulationRate)
    \/ \E trainId \in 1..MaxTrainId : RemoveTrain(trainId)
    \/ ClearAllTrains

Spec == Init /\ [][Next]_vars

(***************************************************************************)
(* Dwelling: the simulation with trains on the first service only (ways A  *)
(* and B, stops N2 and N4), followed for more ticks.                       *)
(***************************************************************************)
DwellRoutes == {1}

NextDwell ==
    \/ LoadServices
    \/ \E routeIndex \in DwellRoutes \cap (1..Len(routes)), dwellTime \in DwellTimes :
           AddTrain(routeIndex, dwellTime)
    \/ \E deltaTime \in DeltaTimes, simulationRate \in SimulationRates :
           UpdateTrainsWithin(MaxDwellTicks, deltaTime, simulationRate)

SpecDwell == Init /\ [][NextDwell]_vars

(***************************************************************************)
(* Route assembly: TrainRoute.fromService applied to a service definition. *)
(***************************************************************************)
StopLists == {<<>>, <<"N3">>, <<"N4", "N12", "N2">>}

Services ==
    [stop_node_ids : StopLists,
     route_way_ids : SeqsUpTo(WayIds \cup {MissingWayId}, MaxRouteWays)]

InitRoute ==
    /\ ways \in {InfraWays, NoWays}
    /\ service \in Services
    /\ routeBuilt = FALSE
    /\ route = FailedRoute
    /\ trains = <<>>
    /\ nextTrainId = 1
    /\ ticks = 0
    /\ lastDt = 0
    /\ gapUsed = <<>>
    /\ routes = <<>>
    /\ lastRemoved = {}
    /\ returned = NothingReturned
    /\ sectionArgs = NoSectionArgs
    /\ newSection = <<>>
    /\ dwelledAt = NeverDwelled
    /\ designerWaySections = <<>>
    /\ selectedWayIds = {}

\* route = TrainRoute.fromService(infra, service); the simulator then holds
\* this route, unless fromService threw.
BuildService ==
    /\ ~routeBuilt
    /\ route' = FromService(service)
    /\ routes' = IF FromService(service).ok THEN <<FromService(service)>> ELSE <<>>
    /\ routeBuilt' = TRUE
    /\ UNCHANGED <<ways, service, trains, nextTrainId, ticks, lastDt, gapUsed,
                   lastRemoved, returned, sectionArgs, newSection, dwelledAt,
                   designerWaySections, selectedWayIds>>

NextRoute ==
    \/ BuildService
    \/ \E routeIndex \in 1..Len(routes), dwellTime \in DwellTimes :
           AddTrain(routeIndex, dwellTime)

SpecRoute == InitRoute /\ [][NextRoute]_vars

(***************************************************************************)
(* Section construction: new WaySection applied to a way id and two        *)
(* optional node ids.                                                      *)
(***************************************************************************)
SectionArgs ==
    [wayId : WayIds \cup {MissingWayId},
     startNodeId : NodeIds \cup {NoNode},
     endNodeId : NodeIds \cup {NoNode}]

InitSection ==
    /\ ways \in {InfraWays, NoWays}
    /\ sectionArgs \in SectionArgs
    /\ newSection = <<>>
    /\ service = NoService
    /\ routeBuilt = FALSE
    /\ route = FailedRoute
    /\ trains = <<>>
    /\ nextTrainId = 1
    /\ ticks = 0
    /\ lastDt = 0
    /\ gapUsed = <<>>
    /\ routes = <<>>
    /\ lastRemoved = {}
    /\ returned = NothingReturned
    /\ dwelledAt = NeverDwelled
    /\ designerWaySections = <<>>
    /\ selectedWayIds = {}

\* newSection = new WaySection(infra, wayId, startNodeId, endNodeId).
ConstructSection ==
    /\ newSection = <<>>
    /\ newSection' = <<WaySection(sectionArgs.wayId, sectionArgs.startNodeId,
                                  sectionArgs.endNodeId)>>
    /\ UNCHANGED <<ways, sectionArgs, service, routeBuilt, route, trains, nextTrainId,
                   ticks, lastDt, gapUsed, routes, lastRemoved, returned, dwelledAt,
                   designerWaySections, selectedWayIds>>

NextSection == ConstructSection

SpecSection == InitSection /\ [][NextSection]_vars

(***************************************************************************)
(* The stop cache: a route built from a service, its cached stop list read *)
(* and invalidated.                                                        *)
(***************************************************************************)
\* route.getCachedStopPositions(): the first read fills the cache.
ReadStopPositions ==
    /\ routeBuilt /\ route.ok
    /\ route' = IF route.cachedStopPositions.cached THEN route
                ELSE CacheStopPositions(route)
    /\ routes' = <<route'>>
    /\ UNCHANGED <<ways, service, routeBuilt, trains, nextTrainId, ticks, lastDt,
                   gapUsed, lastRemoved, returned, sectionArgs, newSection, dwelledAt,
                   designerWaySections, selectedWayIds>>

\* route.invalidateStopCache(): the cache is set to null and filled again.
InvalidateStopCache ==
    /\ routeBuilt /\ route.ok
    /\ route' = CacheStopPositions([route EXCEPT !.cachedStopPositions = NullStops])
    /\ routes' = <<route'>>
    /\ UNCHANGED <<ways, service, routeBuilt, trains, nextTrainId, ticks, lastDt,
                   gapUsed, lastRemoved, returned, sectionArgs, newSection, dwelledAt,
                   designerWaySections, selectedWayIds>>

NextStops ==
    \/ BuildService
    \/ ReadStopPositions
    \/ InvalidateStopCache

SpecStops == InitRoute /\ [][NextStops]_vars

(***************************************************************************)
(* The running simulation: the animation loop calls updateTrains again and *)
(* again, with the same frame time and rate throughout a run.  Trains run  *)
(* on the services whose sections all have a positive length (a train on   *)
(* a section of length 0 throws in every update and moves on without       *)
(* bound).  ticks holds the parity of the number of calls.                 *)
(***************************************************************************)
LiveRoutes == {1, 2, 3}

\* TrainManager.updateTrains(deltaTime, simulationRate), called by animate.
UpdateTrainsRepeatedly(deltaTime, simulationRate) ==
    /\ lastDt \in {0, deltaTime * simulationRate}
    /\ LET adjustedDeltaTime == deltaTime * simulationRate
           done == UpdateTrainsInOrder(trains, InsertionOrder(trains),
                                       adjustedDeltaTime)
       IN  /\ trains' = done.trains
           /\ gapUsed' = done.gaps
           /\ lastRemoved' = done.removed
           /\ lastDt' = adjustedDeltaTime
           /\ dwelledAt' = DwelledAtAfter(done.trains, done.gaps)
    /\ ticks' = (ticks + 1) % 2
    /\ UNCHANGED <<ways, routes, service, routeBuilt, route, nextTrainId, returned,
                   sectionArgs, newSection,
                   designerWaySections, selectedWayIds>>

\* The step of one more updateTrains call: animate requests the next frame
\* after every call, so the calls never cease.
NextFrame == ticks' = (ticks + 1) % 2

NextLive ==
    \/ LoadServices
    \/ \E routeIndex \in LiveRoutes \cap (1..Len(routes)), dwellTime \in DwellTimes :
           AddTrain(routeIndex, dwellTime)
    \/ \E deltaTime \in DeltaTimes, simulationRate \in SimulationRates :
           UpdateTrainsRepeatedly(deltaTime, simulationRate)

SpecLive == Init /\ [][NextLive]_vars /\ WF_ticks(NextFrame)

(***************************************************************************)
(* Properties of one updateTrains call.                                    *)
(***************************************************************************)
IsTick == ticks' = ticks + 1

\* All visiting orders of a fleet of n trains.
VisitOrders(n) ==
    {order \in [1..n -> 1..n] : \A a, b \in 1..n : order[a] = order[b] => a = b}

\* Position in the fleet after the step of the train at position i before it;
\* 0 when the step removed it.
After(i) ==
    IF \E j \in 1..Len(trains') : trains'[j].id = trains[i].id
    THEN CHOOSE j \in 1..Len(trains') : trains'[j].id = trains[i].id
    ELSE 0

\* C1: within one updateTrains call, every train's update computes its gap to
\* the train ahead from the positions the other trains had before the call.
C1_GapFromPreCallPositions ==
    [][IsTick =>
         \A i \in 1..Len(trains) :
             gapUsed'[i] # -1 =>
                 gapUsed'[i] = GetDistanceToTrainAhead(trains[i], trains)]_vars

C3_NoPassing ==
    [][IsTick =>
         \A i, j \in 1..Len(trains) :
             (/\ trains[i].route = trains[j].route
              /\ trains[i].sec = trains[j].sec
              /\ trains[i].distanceAlongKm < trains[j].distanceAlongKm
              /\ After(i) # 0 /\ After(j) # 0
              /\ trains'[After(i)].sec = trains[i].sec
              /\ trains'[After(j)].sec = trains[j].sec)
             => trains'[After(i)].distanceAlongKm
                    <= trains'[After(j)].distanceAlongKm]_vars

\* C4: a moving train does not advance its route position beyond the cached
\* position of a stop that lay ahead of it (other than the stop it last dwelt
\* at) without entering the dwelling state for that stop.
C4_NoStopOvershoot ==
    [][IsTick =>
         \A i \in 1..Len(trains) :
             (After(i) # 0 /\ ~IsDwelling(trains[i])) =>
                 LET stops == GetCachedStopPositions(RouteOf(trains[i]))
                     after == trains'[After(i)]
                 IN  \A k \in 1..Len(stops) :
                         (/\ stops[k].nodeId # trains[i].lastStopNodeId
                          /\ stops[k].routePosition > trains[i].routePosition
                          /\ after.routePosition > stops[k].routePosition)
                         => (after.isAtStop
                             /\ after.lastStopNodeId = stops[k].nodeId)]_vars

\* C5: after every update a train's acceleration lies between
\* -emergencyDeceleration and +baseAcceleration inclusive.
C5_AccelerationBounds ==
    \A i \in 1..Len(trains) :
        /\ trains[i].acceleration >= -EmergencyDeceleration
        /\ trains[i].acceleration <= BaseAcceleration

\* The only train there has ever been brakes for a stop at the emergency rate.
C5_Witness ==
    /\ ticks > 0 /\ nextTrainId = 2 /\ Len(trains) = 1
    /\ trains[1].acceleration = -EmergencyDeceleration

Produced == routeBuilt /\ route.ok

WaysOf(svc) == svc.route_way_ids
NodeSet(wayId) == IF HasWay(wayId) THEN Range(GetWay(wayId).nodes) ELSE {}
SectionLengths(r) ==
    [i \in 1..Len(r.waySections) |-> GetDistance(r.waySections[i])]

\* C7: in every route fromService produces, the end node of each section is
\* the start node of the next.
C7_AdjacentSectionsConnected ==
    Produced =>
        \A i \in 1..(Len(route.waySections) - 1) :
            route.waySections[i].endNodeId = route.waySections[i + 1].startNodeId

\* Each consecutive pair of the service's ways shares exactly one node.
PairsShareOneNode(svc) ==
    \A i \in 1..(Len(WaysOf(svc)) - 1) :
        Cardinality(NodeSet(WaysOf(svc)[i]) \cap NodeSet(WaysOf(svc)[i + 1])) = 1

SharedNode(svc, i) ==
    CHOOSE n \in NodeSet(WaysOf(svc)[i]) \cap NodeSet(WaysOf(svc)[i + 1]) : TRUE

\* The sections' node lists concatenated, a shared boundary node taken once.
RECURSIVE MergedNodes(_, _)
MergedNodes(sections, i) ==
    IF i > Len(sections) THEN <<>>
    ELSE IF i = 1 THEN sections[1].nodeIds \o MergedNodes(sections, 2)
    ELSE Tail(sections[i].nodeIds) \o MergedNodes(sections, i + 1)

\* C8: for two or more ways of which each consecutive pair shares exactly one
\* node, fromService yields one section per way, each ending at the node
\* shared with the next way and starting at the node shared with the previous
\* one, and the merged polyline is the sections' node lists concatenated with
\* each shared node once (no polyline when that leaves fewer than two points).
C8_AssemblyOfConnectedWays ==
    (routeBuilt /\ Len(WaysOf(service)) >= 2 /\ PairsShareOneNode(service)) =>
        /\ route.ok
        /\ Len(route.waySections) = Len(WaysOf(service))
        /\ \A i \in 1..Len(route.waySections) :
               route.waySections[i].wayId = WaysOf(service)[i]
        /\ \A i \in 1..(Len(route.waySections) - 1) :
               /\ route.waySections[i].endNodeId = SharedNode(service, i)
               /\ route.waySections[i + 1].startNodeId = SharedNode(service, i)
        /\ GetRouteLine(route) =
               LET merged == MergedNodes(route.waySections, 1)
               IN  IF Len(merged) < 2 THEN <<>>
                   ELSE [k \in 1..Len(merged) |-> GetNodeCoords(merged[k])]

\* The example of the specification: A = [N1,N2,N3] and B = [N3,N4,N5] give
\* two sections and the merged polyline N1..N5.
C8_Witness ==
    /\ routeBuilt
    /\ WaysOf(service) = <<"A", "B">>
    /\ Len(route.waySections) = 2
    /\ GetRouteLine(route) = <<0, 200, 400, 600, 800>>

\* C9: a section built without explicit endpoints has the way's full node
\* list, for every way with at least two nodes; a route of zero way ids has
\* no sections and total distance 0.
C9_DefaultSectionIsFullWay ==
    /\ (routeBuilt /\ Len(WaysOf(service)) = 1 /\ HasWay(WaysOf(service)[1])) =>
           /\ route.ok
           /\ Len(route.waySections) = 1
           /\ route.waySections[1].nodeIds = GetWay(WaysOf(service)[1]).nodes
    /\ (routeBuilt /\ Len(WaysOf(service)) = 0) =>
           /\ route.ok
           /\ route.waySections = <<>>
           /\ route.totalDistance = 0

\* C10: totalDistance is the sum of the lengths of the route's sections, and
\* the cumulative distance recorded for a section is the sum of the lengths
\* of the sections before it.
C10_DistancesAreSums ==
    Produced =>
        /\ route.totalDistance = SumSeq(SectionLengths(route))
        /\ Len(route.sectionDistances) = Len(route.waySections)
        /\ \A i \in 1..Len(route.waySections) :
               route.sectionDistances[i] =
                   SumSeq(SubSeq(SectionLengths(route), 1, i - 1))

\* A route of three sections of positive length, the first way used twice.
C10_Witness ==
    /\ Produced
    /\ Len(route.waySections) = 3
    /\ route.waySections[1].wayId = route.waySections[3].wayId
    /\ \A i \in 1..3 : GetDistance(route.waySections[i]) > 0

\* The positions of the route's sections whose end node is the start node of
\* the next section: the boundaries between two sections.
Boundaries(r) ==
    {i \in 1..(Len(r.waySections) - 1) :
        r.waySections[i].endNodeId = r.waySections[i + 1].startNodeId}

\* C11: a stop whose node lies exactly at the boundary between two sections is
\* cached with the cumulative distance recorded for that boundary minus the
\* platform offset, clamped to at least 0.
C11_BoundaryStopPosition ==
    Produced =>
        LET stops == GetCachedStopPositions(route)
        IN  \A i \in Boundaries(route) : \A k \in 1..Len(stops) :
                stops[k].nodeId = route.waySections[i].endNodeId =>
                    stops[k].routePosition =
                        Max2(0, route.sectionDistances[i + 1] - PlatformOffset)

(***************************************************************************)
(* Properties of the fleet operations.                                     *)
(***************************************************************************)
\* Whether the update of the train at position i reported the end of its
\* section in this call, given the gap to the train ahead it worked with.
ReportedEnd(i) ==
    /\ ~IsDwelling(trains[i])
    /\ UpdateMoving(Departed(trains[i]), lastDt', gapUsed'[i],
                    GetDistanceToNextStop(Departed(trains[i]))).reachedEnd

\* C12: updateTrains removes a train only if its update reported the end of
\* its section and the train was on the final section of its route; all other
\* trains stay, in their order; and the removals happen after every train has
\* been updated, so a train visited after a removed one still had it ahead.
C12_RemovalOnlyAtRouteEnd ==
    [][IsTick =>
         /\ \A i \in 1..Len(trains) :
                /\ After(i) = 0 <=> trains[i].id \in lastRemoved'
                /\ After(i) = 0 =>
                       /\ ReportedEnd(i)
                       /\ trains[i].sec = Len(RouteOf(trains[i]).waySections)
         /\ Len(trains') = Len(trains) - Cardinality(lastRemoved')
         /\ \A i, j \in 1..Len(trains) :
                (i < j /\ After(i) # 0 /\ After(j) # 0) => After(i) < After(j)
         /\ \A j \in 1..Len(trains) :
                (lastRemoved' # {} /\ ~IsDwelling(trains[j])) => gapUsed'[j] # -1
         /\ \A i, j \in 1..Len(trains) :
                (/\ i < j
                 /\ trains[i].id \in lastRemoved'
                 /\ ~IsDwelling(trains[j])
                 /\ trains[j].route = trains[i].route
                 /\ trains[j].sec = trains[i].sec)
                => gapUsed'[j] < MAX_SAFE_INTEGER]_vars

\* The latest call removed train 1 at the end of its route, and train 2,
\* visited after it on the same section, still found a train ahead.
C12_Witness ==
    /\ lastRemoved = {1}
    /\ Len(trains) = 1 /\ trains[1].id = 2
    /\ trains[1].sec = Len(RouteOf(trains[1]).waySections)
    /\ Len(gapUsed) = 2
    /\ gapUsed[2] # -1 /\ gapUsed[2] < MAX_SAFE_INTEGER

\* A step of an addTrain call that returned something new or took an id.
IsAddTrain == <<returned, nextTrainId>>' # <<returned, nextTrainId>>

\* C13: with a network of at least one way, every way having two or more
\* nodes, addTrain on a route with at least one section adds exactly one
\* train under a new id and returns that id, the train being on the first
\* section at distance 0 and route position 0 with velocity 0 and not
\* dwelling; with a network without ways addTrain returns null and leaves the
\* trains and the id counter unchanged.
C13_AddTrainPlacesTrain ==
    [][IsAddTrain =>
         /\ (/\ DOMAIN ways # {}
             /\ \A w \in DOMAIN ways : Len(GetWay(w).nodes) >= 2
             /\ Len(routes) = 1
             /\ Len(routes[1].waySections) >= 1)
            => /\ Len(trains') = Len(trains) + 1
               /\ SubSeq(trains', 1, Len(trains)) = trains
               /\ trains'[Len(trains')].id \notin {trains[i].id : i \in 1..Len(trains)}
               /\ returned' = ReturnedId(trains'[Len(trains')].id)
               /\ trains'[Len(trains')].route = 1
               /\ trains'[Len(trains')].sec = 1
               /\ trains'[Len(trains')].distanceAlongKm = 0
               /\ trains'[Len(trains')].routePosition = 0
               /\ trains'[Len(trains')].velocity = 0
               /\ ~trains'[Len(trains')].isAtStop
         /\ DOMAIN ways = {}
            => /\ returned' = ReturnedNull
               /\ trains' = trains
               /\ nextTrainId' = nextTrainId]_vars

\* C14: addTrain on a route without sections, or whose first section has
\* fewer than two points, returns null without throwing and leaves the set
\* of trains unchanged.
C14_AddTrainRejectsUnusableRoute ==
    [][(/\ IsAddTrain
        /\ Len(routes) = 1
        /\ \/ Len(routes[1].waySections) = 0
           \/ Len(routes[1].waySections[1].points) < 2)
       => /\ returned' = ReturnedNull
          /\ trains' = trains]_vars

\* Whether the update of the train at position i throws in this call: it is
\* not dwelling and its section has two or more points of length 0.
UpdateThrows(i) ==
    ~IsDwelling(trains[i]) /\ UpdateCoordinatesThrows(trains[i])

\* Whether the train at position j was updated in this call: a dwelling train
\* had its remaining dwell time reduced, any other train computed the
\* distance to the train ahead.
WasUpdated(j) ==
    IF IsDwelling(trains[j])
    THEN \E k \in 1..Len(trains') :
            /\ trains'[k].id = trains[j].id
            /\ trains'[k].remainingDwellTime = trains[j].remainingDwellTime - lastDt'
    ELSE gapUsed'[j] # -1

\* C15: an error raised while updating one train during updateTrains does not
\* prevent the other trains of the fleet from being updated in that call.
C15_ErrorDoesNotStopOtherUpdates ==
    [][IsTick =>
         \A i, j \in 1..Len(trains) : (UpdateThrows(i) /\ j # i) => WasUpdated(j)]_vars

\* C16: building a route from a service that names a way id absent from the
\* network does not throw: it returns a route, with sections on ways of the
\* network only, and the length looked up for the absent way is zero.
C16_MissingWayDoesNotThrow ==
    (/\ routeBuilt
     /\ \E i \in 1..Len(WaysOf(service)) : ~HasWay(WaysOf(service)[i]))
    => /\ route.ok
       /\ \A i \in 1..Len(route.waySections) : HasWay(route.waySections[i].wayId)
       /\ \A i \in 1..Len(WaysOf(service)) :
              ~HasWay(WaysOf(service)[i]) => GetWayDistance(WaysOf(service)[i]) = 0

(***************************************************************************)
(* Properties of the WaySection constructor.                               *)
(***************************************************************************)
\* A requested node that is not in the way's node list.
NotInWay(nodeId) ==
    nodeId # NoNode /\ nodeId \notin Range(GetWay(sectionArgs.wayId).nodes)

\* C17: constructing a WaySection fails with an error when the way id is not
\* in the network, or when a requested start or end node is not in that
\* way's node list; no section is produced then.
C17_ConstructorRejectsUnknownWayOrNode ==
    (/\ Len(newSection) = 1
     /\ \/ ~HasWay(sectionArgs.wayId)
        \/ NotInWay(sectionArgs.startNodeId)
        \/ NotInWay(sectionArgs.endNodeId))
    => /\ ~newSection[1].ok
       /\ newSection[1].nodeIds = <<>>
       /\ newSection[1].points = <<>>

\* The constructor has run on a way of the network with a start node that is
\* in another way, and has thrown.
C17_Witness ==
    /\ Len(newSection) = 1
    /\ HasWay(sectionArgs.wayId)
    /\ NotInWay(sectionArgs.startNodeId)
    /\ \E w \in DOMAIN ways : sectionArgs.startNodeId \in Range(GetWay(w).nodes)
    /\ ~NotInWay(sectionArgs.endNodeId)
    /\ ~newSection[1].ok

(***************************************************************************)
(* Properties of a train's progress along its route.                       *)
(***************************************************************************)
\* C18: a train that is moving (not dwelling) and stays in the fleet never
\* has its routePosition decreased by a tick, the ticks on which it advances
\* to the next section included.
C18_RoutePositionMonotonic ==
    [][IsTick =>
         \A i \in 1..Len(trains) :
             (After(i) # 0 /\ ~IsDwelling(trains[i]))
             => trains'[After(i)].routePosition >= trains[i].routePosition]_vars

\* C19: whenever a train is at a stop (isAtStop is true), its velocity is 0.
C19_StoppedAtStop ==
    \A i \in 1..Len(trains) : trains[i].isAtStop => trains[i].velocity = 0

\* The train at position i has the section, the distance along it and the
\* route position after the step that it had before.
HeldInPlace(i) ==
    /\ After(i) # 0
    /\ trains'[After(i)].sec = trains[i].sec
    /\ trains'[After(i)].distanceAlongKm = trains[i].distanceAlongKm
    /\ trains'[After(i)].routePosition = trains[i].routePosition

\* The dwell of the train at position i is over: it is at the stop with no
\* dwell time remaining.
DwellOver(i) == trains[i].isAtStop /\ trains[i].remainingDwellTime <= 0

\* C20: a train that enters dwelling starts with its whole dwell duration
\* remaining; on every tick on which dwell time remains it keeps its section,
\* its distance along the section and its route position while the tick's
\* elapsed time is taken off the remainder, the tick that brings the
\* remainder to zero or below included; and on the tick after that one the
\* train moves again.
C20_DwellHoldsThenDeparts ==
    [][IsTick =>
         \A i \in 1..Len(trains) :
             /\ (~trains[i].isAtStop /\ After(i) # 0 /\ trains'[After(i)].isAtStop)
                => trains'[After(i)].remainingDwellTime = trains[i].stopDwellTime
             /\ IsDwelling(trains[i])
                => /\ HeldInPlace(i)
                   /\ trains'[After(i)].isAtStop
                   /\ trains'[After(i)].remainingDwellTime
                          = trains[i].remainingDwellTime - lastDt'
             /\ DwellOver(i) => ~HeldInPlace(i)]_vars

(***************************************************************************)
(* Properties of one train's update.                                       *)
(***************************************************************************)
\* What the update of the train at position i did in this call, when it took
\* the moving branch: recomputed from the gap to the train ahead it used.
MovingUpdate(i) ==
    UpdateMoving(Departed(trains[i]), lastDt', gapUsed'[i],
                 GetDistanceToNextStop(Departed(trains[i])))

\* The update of the train at position i took the moving branch in this call.
TookMovingBranch(i) == ~IsDwelling(trains[i]) /\ gapUsed'[i] # -1

\* C21: a train's update reports the end of its section exactly when its
\* distance along the section is at least the length of the section it
\* occupies, also when that section covers only part of its way.
C21_ReachedEndOfSection ==
    [][IsTick =>
         \A i \in 1..Len(trains) :
             (TookMovingBranch(i) /\ ~MovingUpdate(i).threw)
             => (MovingUpdate(i).reachedEnd
                 <=> MovingUpdate(i).train.distanceAlongKm
                         >= GetDistance(SectionOf(MovingUpdate(i).train)))]_vars

\* The gap to the next stop the train at position i measures at the start of
\* a moving tick.
GapToNextStop(i) == GetDistanceToNextStop(Departed(trains[i]))

\* The train at position i ends the step dwelling at the stop that was next.
EndsDwellingAtNextStop(i) ==
    /\ trains'[After(i)].isAtStop
    /\ trains'[After(i)].remainingDwellTime = trains[i].stopDwellTime
    /\ trains'[After(i)].lastStopNodeId = GapToNextStop(i).stopNodeId

\* C22, as stated: on a moving tick the train ends the tick dwelling at its
\* next stop if and only if the gap to that stop measured at the start of the
\* tick was at most 0.005 km; otherwise isAtStop, remainingDwellTime and
\* lastStopNodeId are what they were before the tick.
C22_DwellIffWithinTolerance_Stated ==
    [][IsTick =>
         \A i \in 1..Len(trains) :
             (TookMovingBranch(i) /\ After(i) # 0)
             => IF GapToNextStop(i).distance <= StopTolerance
                THEN EndsDwellingAtNextStop(i)
                ELSE /\ trains'[After(i)].isAtStop = trains[i].isAtStop
                     /\ trains'[After(i)].remainingDwellTime
                            = trains[i].remainingDwellTime
                     /\ trains'[After(i)].lastStopNodeId
                            = trains[i].lastStopNodeId]_vars

\* C22, amended: ... otherwise lastStopNodeId is what it was before the tick,
\* and isAtStop and remainingDwellTime are what leaving the stop made them:
\* false and 0 for a train whose dwell had ended, unchanged for any other.
C22_DwellIffWithinTolerance ==
    [][IsTick =>
         \A i \in 1..Len(trains) :
             (TookMovingBranch(i) /\ After(i) # 0)
             => IF GapToNextStop(i).distance <= StopTolerance
                THEN EndsDwellingAtNextStop(i)
                ELSE /\ ~trains'[After(i)].isAtStop
                     /\ trains'[After(i)].remainingDwellTime
                            = (IF trains[i].isAtStop THEN 0
                               ELSE trains[i].remainingDwellTime)
                     /\ trains'[After(i)].lastStopNodeId
                            = trains[i].lastStopNodeId]_vars

\* A train has left the stop N2 after its dwell, on a moving tick with the
\* next stop N4 far ahead, and is under way again.
C22_Witness ==
    \E i \in 1..Len(trains) :
        /\ trains[i].lastStopNodeId = "N2"
        /\ ~trains[i].isAtStop
        /\ trains[i].remainingDwellTime = 0
        /\ trains[i].velocity > 0

\* The train at position i enters dwelling in this step.
EntersDwelling(i) ==
    /\ After(i) # 0
    /\ TookMovingBranch(i)
    /\ trains'[After(i)].isAtStop

\* C23: lastStopNodeId is the stop a train dwelled at last (it changes only
\* when the train enters dwelling), and a train never enters dwelling at the
\* stop it dwelled at last: between two dwells at the same stop there is a
\* dwell at a different one.
C23_NoRepeatedDwellAtSameStop ==
    [][IsTick =>
         \A i \in 1..Len(trains) :
             /\ EntersDwelling(i)
                => /\ trains'[After(i)].lastStopNodeId # NoNode
                   /\ trains'[After(i)].lastStopNodeId # trains[i].lastStopNodeId
             /\ (After(i) # 0 /\ ~EntersDwelling(i))
                => trains'[After(i)].lastStopNodeId = trains[i].lastStopNodeId]_vars

\* A train has dwelled at N2 and left it on a moving tick that it began
\* within the tolerance before that stop's cached position: N2 was still
\* ahead of it and was not taken again.
C23_Witness ==
    \E i \in 1..Len(trains) :
        /\ trains[i].lastStopNodeId = "N2"
        /\ ~trains[i].isAtStop
        /\ trains[i].remainingDwellTime = 0
        /\ trains[i].sec = 1
        /\ trains[i].routePosition < 50

\* The gap to the train ahead is at most the distance v^2 / (2 * deceleration)
\* in which the train at position i stops from the velocity it begins the tick
\* with.
WithinBrakingDistance(i, deceleration) ==
    2 * deceleration * gapUsed'[i] <= trains[i].velocity * trains[i].velocity

\* C24: the acceleration chosen on a moving tick is at most baseAcceleration;
\* it is -emergencyDeceleration whenever the gap to the train ahead is at most
\* the emergency braking distance, at most -baseDeceleration whenever that gap
\* is at most the braking distance, and at most 0 whenever the velocity is at
\* or above the maximum speed.
C24_MostRestrictiveCandidate ==
    [][IsTick =>
         \A i \in 1..Len(trains) :
             (TookMovingBranch(i) /\ After(i) # 0)
             => /\ trains'[After(i)].acceleration <= BaseAcceleration
                /\ WithinBrakingDistance(i, EmergencyDeceleration)
                   => trains'[After(i)].acceleration = -EmergencyDeceleration
                /\ WithinBrakingDistance(i, BaseDeceleration)
                   => trains'[After(i)].acceleration <= -BaseDeceleration
                /\ trains[i].velocity >= MaxSpeed
                   => trains'[After(i)].acceleration <= 0]_vars

\* On a route without stops a train has braked with the emergency
\* deceleration for the train its latest update found ahead.
C24_Witness ==
    \E i \in 1..Len(trains) :
        /\ Len(gapUsed) = Len(trains)
        /\ RouteOf(trains[i]).stopNodeIds = <<>>
        /\ gapUsed[i] # -1 /\ gapUsed[i] < MAX_SAFE_INTEGER
        /\ trains[i].acceleration = -EmergencyDeceleration

\* C25: when a stop is ahead, the velocity is positive, the deceleration
\* v^2 / (2s) that halts the train exactly at the stop is smaller than
\* baseDeceleration, and no train is within braking distance, the acceleration
\* chosen is not a braking value: it is at least 0.
C25_NoBrakingForDistantStop ==
    [][IsTick =>
         \A i \in 1..Len(trains) :
             (/\ TookMovingBranch(i) /\ After(i) # 0
              /\ GapToNextStop(i).distance < MAX_SAFE_INTEGER
              /\ trains[i].velocity > 0
              /\ trains[i].velocity * trains[i].velocity
                     < 2 * BaseDeceleration * GapToNextStop(i).distance
              /\ ~WithinBrakingDistance(i, BaseDeceleration))
             => trains'[After(i)].acceleration >= 0]_vars

(***************************************************************************)
(* Properties of the gap to the train ahead.                               *)
(***************************************************************************)
\* The trains as the update of the i-th train finds them during a tick: the
\* trains visited before it are already updated.
FleetSeenBy(i) ==
    UpdateTrainsFrom(trains, trains, [k \in 1..(i - 1) |-> k], 1, lastDt', {},
                     [j \in 1..Len(trains) |-> -1]).trains

\* All trains run on the route of the i-th train, whose sections have
\* pairwise distinct way ids.
OnOneRoute(i) ==
    /\ \A j \in 1..Len(trains) : trains[j].route = trains[i].route
    /\ \A a, b \in 1..Len(RouteOf(trains[i]).waySections) :
           a # b => RouteOf(trains[i]).waySections[a].wayId
                      # RouteOf(trains[i]).waySections[b].wayId

\* The other trains strictly ahead of the i-th train on the route.
StrictlyAhead(i) ==
    {j \in 1..Len(trains) :
        /\ j # i
        /\ FleetSeenBy(i)[j].routePosition > trains[i].routePosition}

\* The difference of route positions to the nearest train strictly ahead.
GapByRoutePosition(i) ==
    IF StrictlyAhead(i) = {} THEN MAX_SAFE_INTEGER
    ELSE SetMin({FleetSeenBy(i)[j].routePosition : j \in StrictlyAhead(i)})
           - trains[i].routePosition

\* C26: for trains on one route whose sections have pairwise distinct way ids,
\* the gap to the train ahead computed for a train is the route position of
\* the nearest other train strictly ahead of it minus its own route position,
\* and is MAX_SAFE_INTEGER exactly when no other train is strictly ahead.
C26_GapIsRoutePositionDifference ==
    [][IsTick =>
         \A i \in 1..Len(trains) :
             (gapUsed'[i] # -1 /\ OnOneRoute(i))
             => gapUsed'[i] = GapByRoutePosition(i)]_vars

(***************************************************************************)
(* Properties of the sections of an assembled route.                       *)
(***************************************************************************)
\* C27: in the route fromService produces for a service of two or more way
\* ids, no section has its start node equal to its end node, and every
\* section has at least two nodes.
C27_NoDegenerateSection ==
    (Produced /\ Len(WaysOf(service)) >= 2) =>
        \A i \in 1..Len(route.waySections) :
            /\ route.waySections[i].startNodeId # route.waySections[i].endNodeId
            /\ Len(route.waySections[i].nodeIds) >= 2

\* All ways of the service exist, and some consecutive pair shares no node.
BrokenChain(svc) ==
    /\ Len(WaysOf(svc)) >= 2
    /\ \A i \in 1..Len(WaysOf(svc)) : HasWay(WaysOf(svc)[i])
    /\ \E i \in 1..(Len(WaysOf(svc)) - 1) :
           NodeSet(WaysOf(svc)[i]) \cap NodeSet(WaysOf(svc)[i + 1]) = {}

\* C28: when two consecutive ways of a service share no node, fromService
\* does not throw, and the route contains only ways that connect: each
\* section's way shares a node with the way of the next section.
C28_BrokenChainKeepsConnectedWays ==
    (routeBuilt /\ BrokenChain(service)) =>
        /\ route.ok
        /\ \A i \in 1..(Len(route.waySections) - 1) :
               NodeSet(route.waySections[i].wayId)
                   \cap NodeSet(route.waySections[i + 1].wayId) # {}

(***************************************************************************)
(* Properties of a constructed section.                                    *)
(***************************************************************************)
\* Both endpoints are given and occur in the way.
EndpointsInWay ==
    /\ HasWay(sectionArgs.wayId)
    /\ sectionArgs.startNodeId \in Range(GetWay(sectionArgs.wayId).nodes)
    /\ sectionArgs.endNodeId \in Range(GetWay(sectionArgs.wayId).nodes)

\* The nodes of the way from index startIndex to index endIndex inclusive,
\* in that direction.
RunOfNodes(nodes, startIndex, endIndex) ==
    [k \in 1..(Abs(endIndex - startIndex) + 1) |->
        nodes[IF startIndex <= endIndex THEN startIndex + (k - 1)
              ELSE startIndex - (k - 1)]]

\* C29: for a way and start and end nodes that occur in it, the section's
\* node list is the contiguous run of the way's nodes from the index of the
\* start node to the index of the end node inclusive, in travel order
\* (backward when the start index is after the end index), whether or not
\* the way is bidirectional.  The index of a node is that of its first
\* occurrence in the way.
C29_SectionIsContiguousRun ==
    (newSection # <<>> /\ EndpointsInWay) =>
        /\ newSection[1].ok
        /\ newSection[1].startNodeId = sectionArgs.startNodeId
        /\ newSection[1].endNodeId = sectionArgs.endNodeId
        /\ newSection[1].nodeIds =
               RunOfNodes(GetWay(sectionArgs.wayId).nodes,
                          IndexOf(GetWay(sectionArgs.wayId).nodes,
                                  sectionArgs.startNodeId),
                          IndexOf(GetWay(sectionArgs.wayId).nodes,
                                  sectionArgs.endNodeId))

\* The unidirectional way A = [N1, N2, N3] walked backward from N3 to N1.
C29_Witness ==
    /\ newSection # <<>>
    /\ sectionArgs = [wayId |-> "A", startNodeId |-> "N3", endNodeId |-> "N1"]
    /\ HasWay("A")
    /\ ~GetWay("A").bidi
    /\ newSection[1].nodeIds = <<"N3", "N2", "N1">>

(***************************************************************************)
(* Properties of the stop cache.                                           *)
(***************************************************************************)
\* The declared stop nodes that have coordinates.
StopsWithCoordinates(r) ==
    {n \in Range(r.stopNodeIds) : GetNodeCoords(n) # NoCoord}

\* The list holds exactly these stop nodes, once each.
HoldsExactly(stops, nodeIds) ==
    /\ {stops[k].nodeId : k \in 1..Len(stops)} = nodeIds
    /\ Len(stops) = Cardinality(nodeIds)

\* Route positions of at least 0, in ascending order.
AscendingFromZero(stops) ==
    /\ \A k \in 1..Len(stops) : stops[k].routePosition >= 0
    /\ \A k \in 1..(Len(stops) - 1) :
           stops[k].routePosition <= stops[k + 1].routePosition

\* A read leaves the list the next read returns equal to the one it returned.
RepeatedReadsAgree ==
    [][ReadStopPositions =>
           GetCachedStopPositions(route') = GetCachedStopPositions(route)]_vars

\* C30 as stated: the cached stop list of a route contains exactly the
\* declared stop nodes that have coordinates, each with a route position of at
\* least 0, in ascending order of route position, and repeated reads return
\* the same list until invalidateStopCache is called.
C30_CachedStops_Stated ==
    /\ [](Produced =>
            /\ HoldsExactly(GetCachedStopPositions(route),
                            StopsWithCoordinates(route))
            /\ AscendingFromZero(GetCachedStopPositions(route)))
    /\ RepeatedReadsAgree

\* C30: for a route that has a polyline the cached stop list contains exactly
\* the declared stop nodes that have coordinates, each with a route position
\* of at least 0, in ascending order of route position; for a route without a
\* polyline the list is empty; repeated reads return the same list until
\* invalidateStopCache is called.
C30_CachedStops ==
    /\ [](Produced =>
            /\ GetRouteLine(route) # <<>> =>
                   HoldsExactly(GetCachedStopPositions(route),
                                StopsWithCoordinates(route))
            /\ GetRouteLine(route) = <<>> =>
                   GetCachedStopPositions(route) = <<>>
            /\ AscendingFromZero(GetCachedStopPositions(route)))
    /\ RepeatedReadsAgree

\* The stops N4, N12, N2 declared for the ways A and B, read from the filled
\* cache: N12 has no coordinates, and N2 comes before N4.
C30_Witness ==
    /\ Produced
    /\ route.cachedStopPositions.cached
    /\ WaysOf(service) = <<"A", "B">>
    /\ service.stop_node_ids = <<"N4", "N12", "N2">>
    /\ GetCachedStopPositions(route) =
           <<[nodeId |-> "N2", routePosition |-> 50],
             [nodeId |-> "N4", routePosition |-> 450]>>

(***************************************************************************)
(* Properties of the fleet.                                                *)
(***************************************************************************)
\* C31: across addTrain, updateTrains, removeTrain and clearAllTrains the id
\* counter never decreases and no train id is issued twice: an id issued is
\* the counter's value, the counter is larger afterwards, and the ids of the
\* trains in the fleet are distinct and below the counter.
C31_IdsNeverReused ==
    /\ [][/\ nextTrainId' >= nextTrainId
          /\ (IsAddTrain /\ returned'.kind = "id") =>
                 /\ returned'.id = nextTrainId
                 /\ nextTrainId' > returned'.id]_vars
    /\ [](\A i, j \in 1..Len(trains) :
             /\ trains[i].id < nextTrainId
             /\ (i # j => trains[i].id # trains[j].id))

\* The second id was issued and its train is alone in the fleet: the first
\* train was removed or the fleet cleared.
C31_Witness ==
    /\ returned = ReturnedId(2)
    /\ Len(trains) = 1
    /\ trains[1].id = 2
    /\ nextTrainId = 3

(***************************************************************************)
(* Properties of the running simulation.                                   *)
(***************************************************************************)
\* The train with id k is in the fleet, on a route whose sections have
\* pairwise distinct way ids and positive lengths.
RunsOnSoundRoute(k) ==
    \E i \in 1..Len(trains) :
        /\ trains[i].id = k
        /\ \A a, b \in 1..Len(RouteOf(trains[i]).waySections) :
               /\ GetDistance(RouteOf(trains[i]).waySections[a]) > 0
               /\ a # b => RouteOf(trains[i]).waySections[a].wayId
                             # RouteOf(trains[i]).waySections[b].wayId

DistinctWayIds(r) ==
    \A a, b \in 1..Len(r.waySections) :
        a # b => r.waySections[a].wayId # r.waySections[b].wayId

\* C33: for a train on a route whose sections have pairwise distinct way ids,
\* after every tick routePosition is the cumulative distance recorded for its
\* current section plus its distance along that section.
C33_RoutePositionMatchesSection ==
    \A i \in 1..Len(trains) :
        DistinctWayIds(RouteOf(trains[i])) =>
            trains[i].routePosition =
                RouteOf(trains[i]).sectionDistances[trains[i].sec]
                    + trains[i].distanceAlongKm

\* After some ticks a train has moved on to its second section and along it.
C33_Witness ==
    \E i \in 1..Len(trains) :
        /\ ticks > 0
        /\ trains[i].sec = 2
        /\ trains[i].distanceAlongKm > 0
        /\ RouteOf(trains[i]).sectionDistances[2] > 0

\* The largest whole number of velocity units not above the maximum speed of
\* 60 / 2.23694 m/s (53.64 units).
MaxSpeedFloor == MaxSpeed - 1

\* C34: a train's velocity is never negative, and it never exceeds the
\* maximum speed by more than baseAcceleration times the largest adjusted
\* elapsed time of a tick so far.  The second half is stated tick by tick: a
\* tick leaves the velocity at most at the larger of its old value and the
\* maximum speed plus baseAcceleration times the tick's adjusted elapsed
\* time; with the initial velocity 0 this gives the bound for every state.
C34_VelocityBounds ==
    /\ [](\A i \in 1..Len(trains) : trains[i].velocity >= 0)
    /\ [][IsTick =>
            \A i \in 1..Len(trains) :
                After(i) # 0 =>
                    trains'[After(i)].velocity
                        <= Max2(trains[i].velocity,
                                MaxSpeedFloor + BaseAcceleration * lastDt')]_vars

\* A train runs faster than the maximum speed.
C34_Witness ==
    \E i \in 1..Len(trains) : trains[i].velocity > MaxSpeed

(***************************************************************************)
(* A route with two stops at the same place: a service whose stop nodes N3 *)
(* and N13 have the same coordinates, so that cacheStopPositions gives     *)
(* both the same route position.                                           *)
(***************************************************************************)
MaxNearbyTicks == 9
MaxNearbyTrains == 1

NearbyStopsService == [stop_node_ids |-> <<"N3", "N13">>, route_way_ids |-> <<"A", "B">>]

\* services = infraData.services.map(Route.fromService), for infrastructure
\* data whose only service is NearbyStopsService.
LoadNearbyStopsService ==
    /\ routes = <<>>
    /\ routes' = <<CacheStopPositions(FromService(NearbyStopsService))>>
    /\ UNCHANGED <<ways, service, routeBuilt, route, trains, nextTrainId, ticks,
                   lastDt, gapUsed, lastRemoved, returned, sectionArgs, newSection,
                   dwelledAt,
                   designerWaySections, selectedWayIds>>

NextNearbyStops ==
    \/ LoadNearbyStopsService
    \/ \E routeIndex \in 1..Len(routes), dwellTime \in DwellTimes :
           nextTrainId <= MaxNearbyTrains /\ AddTrain(routeIndex, dwellTime)
    \/ \E deltaTime \in DeltaTimes, simulationRate \in SimulationRates :
           UpdateTrainsWithin(MaxNearbyTicks, deltaTime, simulationRate)

SpecNearbyStops == Init /\ [][NextNearbyStops]_vars

\* C35: a train enters dwelling at most once for each stop of its route
\* during its lifetime: an update never makes a train enter dwelling at a stop
\* it has entered dwelling at before.
C35_DwellsOncePerStop ==
    [][IsTick =>
         \A i \in 1..Len(trains) :
             EntersDwelling(i) =>
                 trains'[After(i)].lastStopNodeId \notin dwelledAt[trains[i].id]]_vars

\* C36: in every state between ticks, a train's remainingDwellTime is between
\* 0 and its configured dwell time inclusive, and it is 0 whenever the train
\* is not at a stop.
C36_RemainingDwellTimeInRange ==
    \A i \in 1..Len(trains) :
        /\ trains[i].remainingDwellTime >= 0
        /\ trains[i].remainingDwellTime <= trains[i].stopDwellTime
        /\ ~trains[i].isAtStop => trains[i].remainingDwellTime = 0

\* The part of C36 about trains that are not at a stop, and its upper bound.
RemainingDwellTimeAtMostConfigured ==
    \A i \in 1..Len(trains) :
        /\ trains[i].remainingDwellTime <= trains[i].stopDwellTime
        /\ ~trains[i].isAtStop => trains[i].remainingDwellTime = 0

(***************************************************************************)
(* RouteDesigner: the route being designed (designerWaySections) and the   *)
(* ways clicked on the map (selectedWayIds).  The tracks listed with Add   *)
(* buttons are the selected ways or, when none is selected, the available  *)
(* next ways.                                                              *)
(***************************************************************************)
MaxSelected == 3

\* The designer leaves the simulation alone.
SimulationUnchanged ==
    UNCHANGED <<service, routeBuilt, route, trains, nextTrainId, ticks, lastDt,
                gapUsed, routes, lastRemoved, ways, returned, sectionArgs,
                newSection, dwelledAt>>

\* availableWays, as the set of the way ids the memo lists: the ways not yet
\* in the route that contain a node of the last section other than its first
\* one, at a place the way can be left from.
AvailableWays ==
    IF Len(designerWaySections) = 0 THEN {}
    ELSE
      LET nodeIds == Tail(designerWaySections[Len(designerWaySections)].nodeIds)
      IN  {wayId \in DOMAIN ways :
             /\ ~\E i \in 1..Len(designerWaySections) :
                    designerWaySections[i].wayId = wayId
             /\ \E n \in 1..Len(nodeIds) :
                    LET index == IndexOf(GetWay(wayId).nodes, nodeIds[n])
                    IN  /\ index # 0
                        /\ GetWay(wayId).bidi \/ index < Len(GetWay(wayId).nodes)}

\* The features of the map layer "available-ways": every way while the route
\* is empty, the available next ways afterwards.
AvailableWaysLayer ==
    IF Len(designerWaySections) = 0 THEN DOMAIN ways ELSE AvailableWays

\* The tracks shown with Add buttons.
ListedTracks == IF selectedWayIds # {} THEN selectedWayIds ELSE AvailableWays

\* A track list item that offers both directions for every way.
BothDirectionsOffered(wayId) == {"forward", "backward"}

\* TrackListItem: the directions its buttons pass to addWayToRoute; the single
\* Add button of a unidirectional way passes none, which is "forward".
DirectionsOffered(wayId) ==
    IF HasWay(wayId) /\ GetWay(wayId).bidi THEN {"forward", "backward"}
    ELSE {"forward"}

\* An addWayToRoute that leaves the last section as it is.
KeepLastSection(lastSection, connectingNodeId) == lastSection

\* addWayToRoute, lines 311-318: the last section, cut at the connecting node
\* unless it ends there.
ConnectLastSection(lastSection, connectingNodeId) ==
    IF connectingNodeId # lastSection.endNodeId
    THEN WaySection(lastSection.wayId, lastSection.startNodeId, connectingNodeId)
    ELSE lastSection

\* addWayToRoute: the sections it passes to setWaySections; ok = FALSE when it
\* returns early or a WaySection constructor throws.
AddedWay(wayId, direction) ==
    LET unchanged == [ok |-> FALSE, waySections |-> designerWaySections] IN
    IF ~HasWay(wayId) THEN unchanged
    ELSE
      LET newWay == GetWay(wayId) IN
      IF Len(designerWaySections) = 0
      THEN LET first == IF direction = "backward"
                        THEN WaySection(wayId, newWay.nodes[Len(newWay.nodes)],
                                        newWay.nodes[1])
                        ELSE WaySection(wayId, newWay.nodes[1],
                                        newWay.nodes[Len(newWay.nodes)])
           IN  IF ~first.ok THEN unchanged
               ELSE [ok |-> TRUE, waySections |-> <<first>>]
      ELSE
        LET previous == SubSeq(designerWaySections, 1, Len(designerWaySections) - 1)
            last == designerWaySections[Len(designerWaySections)]
            connectingNodeId == FindCommonElement(last.nodeIds, newWay.nodes)
        IN  IF connectingNodeId = NoNode \/ connectingNodeId = last.startNodeId
            THEN unchanged
            ELSE
              LET lastSection == ConnectLastSection(last, connectingNodeId)
                  next == IF direction = "backward"
                          THEN WaySection(wayId, connectingNodeId, newWay.nodes[1])
                          ELSE WaySection(wayId, connectingNodeId,
                                          newWay.nodes[Len(newWay.nodes)])
              IN  IF ~lastSection.ok \/ ~next.ok \/ Len(next.points) < 2
                  THEN unchanged
                  ELSE [ok |-> TRUE,
                        waySections |-> Append(Append(previous, lastSection), next)]

\* addWayToRoute(wayId, direction).
AddWayToRoute(wayId, direction) ==
    /\ IF AddedWay(wayId, direction).ok
       THEN /\ designerWaySections' = AddedWay(wayId, direction).waySections
            /\ selectedWayIds' = {}
       ELSE UNCHANGED <<designerWaySections, selectedWayIds>>
    /\ SimulationUnchanged

\* handleMapClick: the ways of the available-ways layer under the click.
HandleMapClick(wayIds) ==
    /\ wayIds \subseteq AvailableWaysLayer
    /\ selectedWayIds' = wayIds
    /\ UNCHANGED designerWaySections
    /\ SimulationUnchanged

\* waySections.slice(0, -1).
WithoutLast(sections) == SubSeq(sections, 1, Len(sections) - 1)

\* deleteLastSegment (the Undo button).
DeleteLastSegment ==
    /\ Len(designerWaySections) > 0
    /\ designerWaySections' = WithoutLast(designerWaySections)
    /\ UNCHANGED selectedWayIds
    /\ SimulationUnchanged

\* resetDesigner (the Reset button).
ResetDesigner ==
    /\ Len(designerWaySections) > 0
    /\ designerWaySections' = <<>>
    /\ UNCHANGED selectedWayIds
    /\ SimulationUnchanged

\* The network with one more way: "R", a unidirectional track that runs from
\* N3 back to N2 and so shares both nodes with "A".
WaysWithReturnTrack ==
    [w \in WayIds \cup {"R"} |->
        IF w = "R" THEN [nodes |-> <<"N3", "N2">>, bidi |-> FALSE]
        ELSE InfraWays[w]]

\* The designer opened on either network, with nothing designed or selected.
InitDesigner ==
    /\ ways \in {InfraWays, WaysWithReturnTrack}
    /\ service = NoService
    /\ routeBuilt = FALSE
    /\ route = FailedRoute
    /\ trains = <<>>
    /\ nextTrainId = 1
    /\ ticks = 0
    /\ lastDt = 0
    /\ gapUsed = <<>>
    /\ routes = <<>>
    /\ lastRemoved = {}
    /\ returned = NothingReturned
    /\ sectionArgs = NoSectionArgs
    /\ newSection = <<>>
    /\ dwelledAt = NeverDwelled
    /\ designerWaySections = <<>>
    /\ selectedWayIds = {}

NextDesigner ==
    \/ \E wayIds \in {S \in SUBSET DOMAIN ways : Cardinality(S) <= MaxSelected} :
           HandleMapClick(wayIds)
    \/ \E wayId \in ListedTracks :
           \E direction \in DirectionsOffered(wayId) : AddWayToRoute(wayId, direction)
    \/ DeleteLastSegment
    \/ ResetDesigner

SpecDesigner == InitDesigner /\ [][NextDesigner]_vars

\* The way, start node and end node of every section of a list.
SectionEnds(sections) ==
    [i \in 1..Len(sections) |->
        <<sections[i].wayId, sections[i].startNodeId, sections[i].endNodeId>>]

\* This step is an addWayToRoute that appended a section.
IsAddWay == Len(designerWaySections') = Len(designerWaySections) + 1

\* C37: in the route designer the sections of the route being designed form a
\* connected path: the end node of each section is the start node of the next.
C37_DesignedRouteConnected ==
    \A i \in 1..(Len(designerWaySections) - 1) :
        designerWaySections[i].endNodeId = designerWaySections[i + 1].startNodeId

\* A route of several sections one of which was cut at a connecting node
\* inside its way.
C37_Witness ==
    /\ Len(designerWaySections) >= 2
    /\ \E i \in 1..Len(designerWaySections) :
           LET nodes == GetWay(designerWaySections[i].wayId).nodes
           IN  designerWaySections[i].endNodeId \notin {nodes[1], nodes[Len(nodes)]}

\* Index of a node in the way of a section.
NodeIndexIn(section, nodeId) == IndexOf(GetWay(section.wayId).nodes, nodeId)

C39_AddThenDeleteRestores ==
    [][IsAddWay =>
         SectionEnds(WithoutLast(designerWaySections'))
             = SectionEnds(designerWaySections)]_vars

\* An add that appends without touching the sections before it is undone by
\* deleteLastSegment.
AddAtEndNodeThenDeleteRestores ==
    [][(/\ IsAddWay
        /\ Len(designerWaySections) > 0
        /\ designerWaySections'[Len(designerWaySections')].startNodeId
               = designerWaySections[Len(designerWaySections)].endNodeId) =>
         SectionEnds(WithoutLast(designerWaySections'))
             = SectionEnds(designerWaySections)]_vars

\* A listed track that addWayToRoute appends in one of the directions offered
\* for it.
CanBeAdded(wayId) ==
    \E direction \in DirectionsOffered(wayId) : AddedWay(wayId, direction).ok

\* C40: every way listed as an available next track can be added: calling
\* addWayToRoute for it in at least one of the directions offered for it
\* appends a section to the route being designed.
C40_AvailableWaysCanBeAdded ==
    \A wayId \in AvailableWays : CanBeAdded(wayId)

\* The same for the available ways that share exactly one node with the last
\* section and contain no node twice.
SimplyConnectedAvailableWaysCanBeAdded ==
    \A wayId \in AvailableWays :
        LET nodes == GetWay(wayId).nodes
            last == designerWaySections[Len(designerWaySections)]
        IN  (/\ Cardinality(Range(nodes)) = Len(nodes)
             /\ Cardinality(Range(nodes) \cap Range(last.nodeIds)) = 1)
                => CanBeAdded(wayId)

====
